---------------------------- MODULE Spec2Model ----------------------------
(***************************************************************************)
(* The Redis provider of the autocomplete engine (providers/redis): the    *)
(* tokenizer, the composite-key encoding, the range-query planner and the  *)
(* index mutator, over a model of the four Redis tables of a namespace.    *)
(*                                                                         *)
(* The caller-facing layer and the document store of the Elasticsearch     *)
(* provider (providers/elasticsearch) follow in their own sections.        *)
(*                                                                         *)
(* A Go string is modelled as a sequence of one-character strings (its     *)
(* bytes); Ord gives each byte's value, which is what Redis compares.      *)
(***************************************************************************)
EXTENDS Integers, Sequences, FiniteSets, TLC

VARIABLES
    zset,       \* ac:set:<key>     : composite key -> score (sorted set)
    textH,      \* ac:text:<key>    : id -> original text (hash)
    displayH,   \* ac:display:<key> : id -> display text (hash)
    metaH,      \* ac:meta:<key>    : id -> "1" when indexed case-sensitive
    result,     \* what the last Query returned: [res, err]
    lastOp,     \* history: the last mutating call, what it returned, whether id
                \* was absent (fresh) or stored (found) before it, and the
                \* number n of composite keys it wrote or removed
    idxOpts,    \* history: the IndexOptions each stored id was last indexed with
    nIndex,     \* history: the number of Index calls made so far
    providerFactories,  \* the registry: stored name -> provider factory
    ac,         \* the caller-facing instance New built, and what its last call
                \* returned: [created, config, op, err, res, calls]
    inflight,   \* the provider calls in progress, one slot per concurrent
                \* caller: [idx, del, q], each with its position in the code
    documents   \* the index of the Elasticsearch provider: document id -> document

vars == <<zset, textH, displayH, metaH, result, lastOp, idxOpts, nIndex,
          providerFactories, ac, inflight, documents>>
store == <<zset, textH, displayH, metaH>>
\* what the provider's own calls, run one at a time, leave alone
outer == <<providerFactories, ac, inflight, documents>>

---------------------------------------------------------------------------
(* Bounds and program constants *)

MaxIndex == 2

MatchPrefix == 0
MatchNGram == 1
MatchNOrMoreGram == 2
MatchSubstring == 3

prefixSet == "ac:set:"
prefixDisplay == "ac:display:"
prefixText == "ac:text:"
prefixMeta == "ac:meta:"

defaultNGramSize == 3
resultMultiplierForDuplicates == 10
resultMultiplierForIntersection == 20
minMemberPartsForID == 2
minMemberPartsForPositionalID == 3
lexicographicMaxChar == <<"xFF">>
Sep == ":"

---------------------------------------------------------------------------
(* Bytes and strings *)

Ord(c) ==
    CASE c = " " -> 32
      [] c = "(" -> 40
      [] c = "0" -> 48 [] c = "1" -> 49 [] c = "2" -> 50 [] c = "3" -> 51
      [] c = "4" -> 52 [] c = "5" -> 53 [] c = "6" -> 54 [] c = "7" -> 55
      [] c = "8" -> 56 [] c = "9" -> 57
      [] c = ":" -> 58
      [] c = "A" -> 65 [] c = "B" -> 66 [] c = "H" -> 72
      [] c = "[" -> 91
      [] c = "a" -> 97 [] c = "b" -> 98 [] c = "c" -> 99 [] c = "h" -> 104
      [] c = "xFF" -> 255

ToLowerByte(c) ==
    CASE c = "A" -> "a"
      [] c = "B" -> "b"
      [] c = "H" -> "h"
      [] OTHER -> c

ToLower(s) == [i \in 1..Len(s) |-> ToLowerByte(s[i])]

DigitByte(d) == <<"0", "1", "2", "3", "4", "5", "6", "7", "8", "9">>[d + 1]

RECURSIVE Itoa(_)
Itoa(n) == IF n < 10 THEN <<DigitByte(n)>>
           ELSE Itoa(n \div 10) \o <<DigitByte(n % 10)>>

\* s[i:j] of Go (0-based, j exclusive)
Slice(s, i, j) == SubSeq(s, i + 1, j)

MinInt(a, b) == IF a < b THEN a ELSE b

\* bytewise comparison, as memcmp followed by the length (Redis' lex order)
LexLess(a, b) ==
    \E i \in 1..(MinInt(Len(a), Len(b)) + 1) :
        /\ \A j \in 1..(i - 1) : a[j] = b[j]
        /\ \/ (i > Len(a) /\ i <= Len(b))
           \/ (i <= Len(a) /\ i <= Len(b) /\ Ord(a[i]) < Ord(b[i]))

LexLE(a, b) == a = b \/ LexLess(a, b)

\* strings.Split(member, ":")
RECURSIVE SplitFrom(_, _, _)
SplitFrom(s, i, cur) ==
    IF i > Len(s) THEN <<cur>>
    ELSE IF s[i] = Sep THEN <<cur>> \o SplitFrom(s, i + 1, <<>>)
    ELSE SplitFrom(s, i + 1, Append(cur, s[i]))

Split(s) == SplitFrom(s, 1, <<>>)

\* the members of S in lexicographic order
RECURSIVE SortedSeq(_)
SortedSeq(S) ==
    IF S = {} THEN <<>>
    ELSE LET p == CHOOSE x \in S : TRUE
             below == {y \in S : LexLess(y, p)}
         IN SortedSeq(below) \o <<p>> \o SortedSeq(S \ (below \cup {p}))

Range(f) == {f[x] : x \in DOMAIN f}

\* the orders in which Go may iterate over a map's keys
Perms(S) ==
    {p \in [1..Cardinality(S) -> S] : \A i, j \in DOMAIN p : i # j => p[i] # p[j]}

Restrict(f, D) == [x \in D |-> f[x]]

---------------------------------------------------------------------------
(* Key encoder / decoder *)

createLexicographicStartKey(query) == <<"[">> \o query

createLexicographicEndKey(query) == <<"[">> \o query \o lexicographicMaxChar

getNGramSizeOrDefault(size) == IF size <= 0 THEN defaultNGramSize ELSE size

createPrefixMember(prefix, id) == prefix \o <<Sep>> \o id

createPositionalMember(text, id, position) ==
    text \o <<Sep>> \o id \o <<Sep>> \o Itoa(position)

extractIDFromMember(member, minParts) ==
    LET parts == Split(member)
    IN IF Len(parts) >= minParts THEN parts[2] ELSE <<>>

getMinPartsForStrategy(strategy) ==
    IF strategy = MatchPrefix THEN minMemberPartsForID
    ELSE minMemberPartsForPositionalID

---------------------------------------------------------------------------
(* The Redis commands the provider issues *)

\* a hash that does not exist reads as the empty hash
NoHash == <<>>

\* ZADD with the INCR flag: the score is added to that of a member present
ZAddIncr(z, members, score) ==
    [m \in (DOMAIN z) \cup members |->
        IF m \in members THEN (IF m \in DOMAIN z THEN z[m] + score ELSE score)
        ELSE z[m]]

ZAdd(z, members, score) ==
    [m \in (DOMAIN z) \cup members |-> IF m \in members THEN score ELSE z[m]]

ZRem(z, members) == Restrict(z, (DOMAIN z) \ members)

HSet(h, field, value) ==
    [f \in (DOMAIN h) \cup {field} |-> IF f = field THEN value ELSE h[f]]

HDel(h, field) == Restrict(h, (DOMAIN h) \ {field})

\* HGET: the value, or redis.Nil when the field (or the hash) is missing
HGet(h, field) ==
    IF field \in DOMAIN h THEN [val |-> h[field], err |-> "nil"]
    ELSE [val |-> <<>>, err |-> "redis.Nil"]

\* a ZRANGEBYLEX bound: "[" is inclusive, "(" exclusive
LexAtLeast(bound, m) ==
    IF Head(bound) = "[" THEN LexLE(Tail(bound), m) ELSE LexLess(Tail(bound), m)

LexAtMost(bound, m) ==
    IF Head(bound) = "[" THEN LexLE(m, Tail(bound)) ELSE LexLess(m, Tail(bound))

\* ZRANGEBYLEX key min max [LIMIT 0 count] over members of equal score.
\* go-redis sends no LIMIT when offset and count are both 0, and Redis
\* reads a negative count as "no limit".
ZRangeByLex(z, min, max, count) ==
    LET hits == SortedSeq({m \in DOMAIN z : LexAtLeast(min, m) /\ LexAtMost(max, m)})
    IN IF count <= 0 \/ count >= Len(hits) THEN hits ELSE SubSeq(hits, 1, count)

---------------------------------------------------------------------------
(* Tokenizer: the composite keys Index writes and Delete removes *)

NormalizeText(text, caseSensitive) ==
    IF caseSensitive THEN text ELSE ToLower(text)

prefixMembers(t, id) ==
    {createPrefixMember(Slice(t, 0, i), id) : i \in 1..Len(t)}

\* the NGram loop of Index stopped one offset early
ngramMembersShort(t, id, size) ==
    LET n == getNGramSizeOrDefault(size)
    IN {createPositionalMember(Slice(t, i, i + n), id, i) : i \in 0..(Len(t) - n - 1)}

ngramMembers(t, id, size) ==
    LET n == getNGramSizeOrDefault(size)
    IN {createPositionalMember(Slice(t, i, i + n), id, i) : i \in 0..(Len(t) - n)}

\* the NOrMoreGram loops of Index with the end offset stopped before len(text)
nOrMoreGramMembersExclusive(t, id, size) ==
    LET n == getNGramSizeOrDefault(size)
    IN UNION {{createPositionalMember(Slice(t, start, end), id, start)
                  : end \in (start + n)..(Len(t) - 1)} : start \in 0..(Len(t) - 1)}

nOrMoreGramMembers(t, id, size) ==
    LET n == getNGramSizeOrDefault(size)
    IN UNION {{createPositionalMember(Slice(t, start, end), id, start)
                  : end \in (start + n)..Len(t)} : start \in 0..(Len(t) - 1)}

substringMembers(t, id) ==
    UNION {{createPositionalMember(Slice(t, start, end), id, start)
               : end \in (start + 1)..Len(t)} : start \in 0..(Len(t) - 1)}

\* the switch of Provider.Index over options.MatchStrategy
IndexMembers(text, id, options) ==
    LET textToIndex == NormalizeText(text, options.CaseSensitive)
    IN CASE options.MatchStrategy = MatchPrefix -> prefixMembers(textToIndex, id)
         [] options.MatchStrategy = MatchNGram ->
                ngramMembers(textToIndex, id, options.NGramSize)
         [] options.MatchStrategy = MatchNOrMoreGram ->
                nOrMoreGramMembers(textToIndex, id, options.NGramSize)
         [] options.MatchStrategy = MatchSubstring -> substringMembers(textToIndex, id)
         [] OTHER -> {}

removePrefixMembers(text, id) ==
    {createPrefixMember(Slice(text, 0, i), id) : i \in 1..Len(text)}

\* removePositionalMembers with the inner loop started one position late
removePositionalMembersLate(text, id) ==
    UNION {{createPositionalMember(Slice(text, start, end), id, start)
               : end \in (start + 2)..Len(text)} : start \in 0..(Len(text) - 1)}

removePositionalMembers(text, id) ==
    UNION {{createPositionalMember(Slice(text, start, end), id, start)
               : end \in (start + 1)..Len(text)} : start \in 0..(Len(text) - 1)}

\* deleteReadFailed without the exemption of redis.Nil
deleteReadFailedOnNil(r) == r.err # "nil"

\* Delete that goes on whatever the read of the text returned
deleteReadFailedNever(r) == FALSE

\* Delete gives up only on a read error other than redis.Nil
deleteReadFailed(r) == r.err # "nil" /\ r.err # "redis.Nil"

\* Delete that takes every entry for case-insensitive, whatever ac:meta holds
deleteCaseSensitiveNever(meta) == FALSE

\* the case flag Delete reads back from ac:meta
deleteCaseSensitive(meta) == meta.err = "nil" /\ meta.val = "1"

\* the ZREMs Delete queues for an id whose stored text is `text`
DeleteMembers(text, meta, id) ==
    IF text # <<>>
    THEN LET textToDelete == NormalizeText(text, deleteCaseSensitive(meta))
         IN removePrefixMembers(textToDelete, id)
                \cup removePositionalMembers(textToDelete, id)
    ELSE {}

---------------------------------------------------------------------------
(* Result assembler and range-query planner *)

extractIDsFromResults(results, minParts) ==
    {extractIDFromMember(results[i], minParts) : i \in DOMAIN results} \ {<<>>}

isEmptySet(set) == Cardinality(set) = 0

limitResults(ids, maxResults) ==
    IF Len(ids) > maxResults THEN SubSeq(ids, 1, maxResults) ELSE ids

\* the loop of extractUniqueIDsFromResults from hit i on, ids collected so far
RECURSIVE collectUniqueIDs(_, _, _, _, _)
collectUniqueIDs(results, i, ids, minParts, maxResults) ==
    IF i > Len(results) THEN ids
    ELSE LET id == extractIDFromMember(results[i], minParts)
         IN IF id # <<>> /\ id \notin Range(ids)
            THEN IF Len(ids) + 1 >= maxResults THEN Append(ids, id)
                 ELSE collectUniqueIDs(results, i + 1, Append(ids, id),
                                       minParts, maxResults)
            ELSE collectUniqueIDs(results, i + 1, ids, minParts, maxResults)

\* extractUniqueIDsFromResults without the uniqueIDs test: one id per hit
extractEveryIDFromResults(results, options) ==
    LET minParts == getMinPartsForStrategy(options.MatchStrategy)
        decoded == SelectSeq([i \in DOMAIN results |->
                                 extractIDFromMember(results[i], minParts)],
                             LAMBDA id : id # <<>>)
    IN IF Len(decoded) > options.MaxResults /\ options.MaxResults >= 1
       THEN SubSeq(decoded, 1, options.MaxResults) ELSE decoded

\* extractUniqueIDsFromResults that lists the keys of its id map in id order
extractSortedIDsFromResults(results, options) ==
    limitResults(SortedSeq(extractIDsFromResults(results,
                     getMinPartsForStrategy(options.MatchStrategy))),
                 IF options.MaxResults >= 1 THEN options.MaxResults ELSE 1)

extractUniqueIDsFromResults(results, options) ==
    collectUniqueIDs(results, 1, <<>>,
                     getMinPartsForStrategy(options.MatchStrategy), options.MaxResults)

\* removeNonIntersectingIDs applied to a copy of the first set
intersectionOf(sets) ==
    {id \in sets[1] : \A k \in 2..Len(sets) : id \in sets[k]}

\* intersectIDSets: the slices extractKeysFromSet may build, in any map order
intersectIDSets(sets) ==
    IF Len(sets) = 0 THEN {<<>>}
    ELSE IF Len(sets) = 1 THEN Perms(sets[1])
    ELSE Perms(intersectionOf(sets))

\* fetchProviderResults without the skip of a nil display
fetchProviderResultsKeepsNil(d, ids) ==
    [i \in 1..Len(ids) |->
        [ID |-> ids[i], Display |-> IF ids[i] \in DOMAIN d THEN d[ids[i]] ELSE "",
         Score |-> 1]]

\* fetchProviderResults over the display hash d: HMGET, nil entries skipped
fetchProviderResults(d, ids) ==
    LET found == SelectSeq(ids, LAMBDA id : id \in DOMAIN d)
    IN [i \in 1..Len(found) |-> [ID |-> found[i], Display |-> d[found[i]], Score |-> 1]]

\* the id sets of the windows of queryNGramSlidingWindow, in scan order
windowIDSets(z, searchQuery, n, options) ==
    [w \in 1..(Len(searchQuery) - n + 1) |->
        LET ngram == Slice(searchQuery, w - 1, w - 1 + n)
            results == ZRangeByLex(z, createLexicographicStartKey(ngram),
                                   createLexicographicEndKey(ngram),
                                   options.MaxResults * resultMultiplierForIntersection)
        IN extractIDsFromResults(results, minMemberPartsForPositionalID)]

\* queryNGramSlidingWindow as one range scan for the whole query string
queryNGramSlidingWindowWhole(z, d, searchQuery, n, options) ==
    LET results == ZRangeByLex(z, createLexicographicStartKey(searchQuery),
                               createLexicographicEndKey(searchQuery),
                               options.MaxResults * resultMultiplierForIntersection)
    IN {fetchProviderResults(d, extractUniqueIDsFromResults(results, options))}

\* the results queryNGramSlidingWindow may return
queryNGramSlidingWindow(z, d, searchQuery, n, options) ==
    LET ngramSets == windowIDSets(z, searchQuery, n, options)
    IN IF \E w \in DOMAIN ngramSets : isEmptySet(ngramSets[w]) THEN {<<>>}
       ELSE {fetchProviderResults(d, limitResults(ids, options.MaxResults))
                : ids \in intersectIDSets(ngramSets)}

\* the single range scan of Provider.Query
querySingleScan(z, d, searchQuery, options) ==
    LET results == ZRangeByLex(z, createLexicographicStartKey(searchQuery),
                               createLexicographicEndKey(searchQuery),
                               options.MaxResults * resultMultiplierForDuplicates)
    IN fetchProviderResults(d, extractUniqueIDsFromResults(results, options))

\* Provider.Query over sorted set z and display hash d: the result lists it
\* may return (more than one only where Go's map order decides)
ProviderQuery(z, d, query, options) ==
    LET searchQuery == NormalizeText(query, options.CaseSensitive)
        n == getNGramSizeOrDefault(options.NGramSize)
    IN IF options.MatchStrategy = MatchNGram /\ Len(searchQuery) < 1 THEN {<<>>}
       ELSE IF options.MatchStrategy = MatchNGram /\ Len(searchQuery) > n
            THEN queryNGramSlidingWindow(z, d, searchQuery, n, options)
       ELSE IF options.MatchStrategy = MatchNOrMoreGram /\ Len(searchQuery) < n
            THEN {<<>>}
       ELSE {querySingleScan(z, d, searchQuery, options)}

ResultIDs(res) == {res[i].ID : i \in DOMAIN res}

---------------------------------------------------------------------------
(* Operations of the provider *)

NoId == <<>>

\* member is a composite key of id: token:id or token:id:position
KeyRefersTo(member, id) ==
    \E i \in 1..(Len(member) - Len(id)) :
        /\ member[i] = Sep
        /\ SubSeq(member, i + 1, i + Len(id)) = id
        /\ \/ i + Len(id) = Len(member)
           \/ /\ i + Len(id) + 2 <= Len(member)
              /\ member[i + Len(id) + 1] = Sep
              /\ \A j \in (i + Len(id) + 2)..Len(member) :
                     member[j] \in {DigitByte(d) : d \in 0..9}

KeysOf(key, id) == {m \in DOMAIN zset[key] : KeyRefersTo(m, id)}

\* id is absent from namespace key: no record in a side table, no composite key
Absent(key, id) ==
    /\ id \notin DOMAIN textH[key]
    /\ id \notin DOMAIN displayH[key]
    /\ id \notin DOMAIN metaH[key]
    /\ KeysOf(key, id) = {}

\* Index that keeps the display text of an id that already has one
IndexKeepsDisplay(key, id, text, display, options) ==
    /\ nIndex < MaxIndex
    /\ zset' = [zset EXCEPT ![key] = ZAdd(@, IndexMembers(text, id, options),
                                          options.Score)]
    /\ textH' = [textH EXCEPT ![key] = HSet(@, id, text)]
    /\ displayH' = [displayH EXCEPT ![key] =
                       IF id \in DOMAIN @ THEN @ ELSE HSet(@, id, display)]
    /\ metaH' = [metaH EXCEPT ![key] =
                    IF options.CaseSensitive THEN HSet(@, id, "1") ELSE HDel(@, id)]
    /\ idxOpts' = [idxOpts EXCEPT ![key] = HSet(@, id, options)]
    /\ lastOp' = [op |-> "Index", key |-> key, id |-> id, err |-> "nil",
                  fresh |-> Absent(key, id), found |-> id \in DOMAIN textH[key],
                  n |-> Cardinality(IndexMembers(text, id, options))]
    /\ nIndex' = nIndex + 1
    /\ UNCHANGED result

Index(key, id, text, display, options) ==
    /\ nIndex < MaxIndex
    /\ zset' = [zset EXCEPT ![key] = ZAdd(@, IndexMembers(text, id, options),
                                          options.Score)]
    /\ textH' = [textH EXCEPT ![key] = HSet(@, id, text)]
    /\ displayH' = [displayH EXCEPT ![key] = HSet(@, id, display)]
    /\ metaH' = [metaH EXCEPT ![key] =
                    IF options.CaseSensitive THEN HSet(@, id, "1") ELSE HDel(@, id)]
    /\ idxOpts' = [idxOpts EXCEPT ![key] = HSet(@, id, options)]
    /\ lastOp' = [op |-> "Index", key |-> key, id |-> id, err |-> "nil",
                  fresh |-> Absent(key, id), found |-> id \in DOMAIN textH[key],
                  n |-> Cardinality(IndexMembers(text, id, options))]
    /\ nIndex' = nIndex + 1
    /\ UNCHANGED result

Delete(key, id) ==
    LET r == HGet(textH[key], id)
        afterIndex == /\ lastOp.op = "Index" /\ lastOp.key = key
                      /\ lastOp.id = id /\ lastOp.fresh
    IN IF deleteReadFailed(r)
       THEN /\ lastOp' = [op |-> "Delete", key |-> key, id |-> id,
                          err |-> "failed to get text for deletion", fresh |-> FALSE,
                          found |-> FALSE, n |-> 0]
            /\ UNCHANGED <<store, result, idxOpts, nIndex>>
       ELSE /\ zset' = [zset EXCEPT ![key] =
                           ZRem(@, DeleteMembers(r.val, HGet(metaH[key], id), id))]
            /\ textH' = [textH EXCEPT ![key] = HDel(@, id)]
            /\ displayH' = [displayH EXCEPT ![key] = HDel(@, id)]
            /\ metaH' = [metaH EXCEPT ![key] = HDel(@, id)]
            /\ idxOpts' = [idxOpts EXCEPT ![key] = HDel(@, id)]
            /\ lastOp' = [op |-> "Delete", key |-> key, id |-> id, err |-> "nil",
                          fresh |-> afterIndex, found |-> r.err = "nil",
                          n |-> Cardinality(DeleteMembers(r.val, HGet(metaH[key], id), id)
                                                \cap DOMAIN zset[key])]
            /\ UNCHANGED <<result, nIndex>>

\* DeleteAll with the Del of every namespace's tables
DeleteAllEverywhere(key) ==
    /\ zset' = [k \in DOMAIN zset |-> NoHash]
    /\ textH' = [k \in DOMAIN textH |-> NoHash]
    /\ displayH' = [k \in DOMAIN displayH |-> NoHash]
    /\ metaH' = [k \in DOMAIN metaH |-> NoHash]
    /\ idxOpts' = [k \in DOMAIN idxOpts |-> NoHash]
    /\ lastOp' = [op |-> "DeleteAll", key |-> key, id |-> NoId, err |-> "nil",
                  fresh |-> FALSE, found |-> FALSE, n |-> Cardinality(DOMAIN zset[key])]
    /\ UNCHANGED <<result, nIndex>>

\* DeleteAll without the Del of ac:text
DeleteAllKeepsText(key) ==
    /\ zset' = [zset EXCEPT ![key] = NoHash]
    /\ displayH' = [displayH EXCEPT ![key] = NoHash]
    /\ metaH' = [metaH EXCEPT ![key] = NoHash]
    /\ idxOpts' = [idxOpts EXCEPT ![key] = NoHash]
    /\ lastOp' = [op |-> "DeleteAll", key |-> key, id |-> NoId, err |-> "nil",
                  fresh |-> FALSE, found |-> FALSE, n |-> Cardinality(DOMAIN zset[key])]
    /\ UNCHANGED <<textH, result, nIndex>>

DeleteAll(key) ==
    /\ zset' = [zset EXCEPT ![key] = NoHash]
    /\ textH' = [textH EXCEPT ![key] = NoHash]
    /\ displayH' = [displayH EXCEPT ![key] = NoHash]
    /\ metaH' = [metaH EXCEPT ![key] = NoHash]
    /\ idxOpts' = [idxOpts EXCEPT ![key] = NoHash]
    /\ lastOp' = [op |-> "DeleteAll", key |-> key, id |-> NoId, err |-> "nil",
                  fresh |-> FALSE, found |-> FALSE, n |-> Cardinality(DOMAIN zset[key])]
    /\ UNCHANGED <<result, nIndex>>

Query(key, query, options) ==
    /\ \E res \in ProviderQuery(zset[key], displayH[key], query, options) :
           result' = [res |-> res, err |-> "nil"]
    /\ UNCHANGED <<store, lastOp, idxOpts, nIndex>>

---------------------------------------------------------------------------
(* The calls explored *)

Keys == {"ns"}

Displays == {"d"}

Scores == {1}

IndexOptionsSet ==
    {o \in [Score : Scores, MatchStrategy : MatchPrefix..MatchSubstring,
            NGramSize : {0, 1, 2}, CaseSensitive : BOOLEAN] :
        o.MatchStrategy \in {MatchPrefix, MatchSubstring} => o.NGramSize = 0}

QueryOptionsSet ==
    {o \in [MaxResults : {2}, MatchStrategy : MatchPrefix..MatchSubstring,
            NGramSize : {0, 2}, CaseSensitive : BOOLEAN] :
        o.MatchStrategy \in {MatchPrefix, MatchSubstring} => o.NGramSize = 0}

\* ids and texts without the separator
Ids == {<<"1">>, <<"2">>}

Texts == {<<"A", "b">>, <<"a", "b", "a">>}

Queries == {<<"a">>, <<"A">>, <<"b">>, <<"a", "b">>, <<"A", "b">>, <<"a", "b", "a">>}

\* ids and texts as the API accepts them: the separator and digits included
SepIds == {<<"0">>, <<"b">>}

SepTexts == {<<"A", ":", "b">>, <<"a", "b">>}

SepQueries == {<<"a">>, <<"A">>, <<"a", ":">>, <<":", "b">>, <<"a", ":", "b">>, <<"b">>}

\* the registry after package initialisation: the redis provider's init()
\* has registered itself
InitFactories == [n \in {<<"r", "e", "d", "i", "s">>} |-> "redis.NewProvider"]

\* no instance built yet, no caller-facing call made; reg is the latest
\* RegisterProvider call, calls the provider calls of the latest operation
NoInstance ==
    [created |-> FALSE, factory |-> "", config |-> <<>>, op |-> "none", args |-> <<>>,
     err |-> "nil", res |-> <<>>, calls |-> <<>>,
     reg |-> [name |-> <<"r", "e", "d", "i", "s">>, factory |-> "redis.NewProvider"]]

\* no provider call in progress
Idle ==
    [idx |-> [pc |-> "idle", partners |-> 0], del |-> [pc |-> "idle", partners |-> 0],
     q |-> [pc |-> "idle"]]

Init ==
    /\ zset = [k \in Keys |-> NoHash]
    /\ textH = [k \in Keys |-> NoHash]
    /\ displayH = [k \in Keys |-> NoHash]
    /\ metaH = [k \in Keys |-> NoHash]
    /\ idxOpts = [k \in Keys |-> NoHash]
    /\ result = [res |-> <<>>, err |-> "nil"]
    /\ lastOp = [op |-> "none", key |-> "", id |-> NoId, err |-> "nil",
                 fresh |-> FALSE, found |-> FALSE, n |-> 0]
    /\ nIndex = 0
    /\ providerFactories = InitFactories
    /\ ac = NoInstance
    /\ inflight = Idle
    /\ documents = NoHash

Next ==
    \/ \E key \in Keys, id \in Ids, text \in Texts, display \in Displays,
          options \in IndexOptionsSet : Index(key, id, text, display, options)
          /\ UNCHANGED outer
    \/ \E key \in Keys, id \in Ids : Delete(key, id)
          /\ UNCHANGED outer
    \/ \E key \in Keys : DeleteAll(key)
          /\ UNCHANGED outer
    \/ \E key \in Keys, query \in Queries, options \in QueryOptionsSet :
          Query(key, query, options)
          /\ UNCHANGED outer

Spec == Init /\ [][Next]_vars

NextSep ==
    \/ \E key \in Keys, id \in SepIds, text \in SepTexts, display \in Displays,
          options \in IndexOptionsSet : Index(key, id, text, display, options)
          /\ UNCHANGED outer
    \/ \E key \in Keys, id \in SepIds : Delete(key, id)
          /\ UNCHANGED outer
    \/ \E key \in Keys : DeleteAll(key)
          /\ UNCHANGED outer
    \/ \E key \in Keys, query \in SepQueries, options \in QueryOptionsSet :
          Query(key, query, options)
          /\ UNCHANGED outer

SpecSep == Init /\ [][NextSep]_vars

\* texts with many occurrences of one token: more composite keys in a scanned
\* range than a scan of MaxResults times the multiplier returns
DenseIds == {<<"1">>, <<"2">>}

DenseSubstringText == <<"a", "0", "a", "0", "a", "0", "a", "0">>

DenseNGramText == [i \in 1..(2 * resultMultiplierForIntersection) |-> "a"]

DenseOptions(strategy, size) ==
    [Score |-> 1, MatchStrategy |-> strategy, NGramSize |-> size, CaseSensitive |-> FALSE]

DenseIndexCalls ==
    {<<DenseSubstringText, DenseOptions(MatchSubstring, 0)>>,
     <<<<"a">>, DenseOptions(MatchSubstring, 0)>>,
     <<DenseNGramText, DenseOptions(MatchNGram, 1)>>,
     <<<<"a", "a">>, DenseOptions(MatchNGram, 1)>>}

DenseQueries == {<<"a">>, <<"a", "a">>, <<"a", "0">>}

DenseQueryOptionsSet ==
    [MaxResults : {2}, MatchStrategy : {MatchNGram, MatchSubstring},
     NGramSize : {1}, CaseSensitive : {FALSE}]

NextDense ==
    \/ \E key \in Keys, id \in DenseIds, call \in DenseIndexCalls, display \in Displays :
          Index(key, id, call[1], display, call[2])
          /\ UNCHANGED outer
    \/ \E key \in Keys, id \in DenseIds : Delete(key, id)
          /\ UNCHANGED outer
    \/ \E key \in Keys : DeleteAll(key)
          /\ UNCHANGED outer
    \/ \E key \in Keys, query \in DenseQueries, options \in DenseQueryOptionsSet :
          Query(key, query, options)
          /\ UNCHANGED outer

SpecDense == Init /\ [][NextDense]_vars

\* Query writes none of the four tables: the states of the tables are those
\* the three mutators reach
NextMutators ==
    \/ \E key \in Keys, id \in SepIds, text \in SepTexts, display \in Displays,
          options \in IndexOptionsSet : Index(key, id, text, display, options)
          /\ UNCHANGED outer
    \/ \E key \in Keys, id \in SepIds : Delete(key, id)
          /\ UNCHANGED outer
    \/ \E key \in Keys : DeleteAll(key)
          /\ UNCHANGED outer

SpecMutators == Init /\ [][NextMutators]_vars

---------------------------------------------------------------------------
(* Claims *)

\* C1: Index of an absent id followed by Delete of that id leaves no
\* composite key of the id in the token index, no text, display or metadata
\* record of it, and no Query returns it (every strategy, n-gram size and
\* case flag).
C1_IndexDeleteRoundTrip ==
    (lastOp.op = "Delete" /\ lastOp.fresh) =>
        /\ lastOp.err = "nil"
        /\ KeysOf(lastOp.key, lastOp.id) = {}
        /\ lastOp.id \notin DOMAIN textH[lastOp.key]
        /\ lastOp.id \notin DOMAIN displayH[lastOp.key]
        /\ lastOp.id \notin DOMAIN metaH[lastOp.key]
        /\ \A query \in SepQueries, options \in QueryOptionsSet :
              \A res \in ProviderQuery(zset[lastOp.key], displayH[lastOp.key],
                                       query, options) :
                  lastOp.id \notin ResultIDs(res)

\* a Delete that followed the Index of an absent id, removed composite keys
\* and left another entry's keys behind
C1_Witness ==
    /\ lastOp.op = "Delete" /\ lastOp.fresh /\ lastOp.n > 2
    /\ DOMAIN textH[lastOp.key] # {}
    /\ DOMAIN zset[lastOp.key] # {}

\* C10: Delete of an id that is not indexed returns no error and leaves the
\* four tables unchanged; a Delete that returned leaves the id not indexed,
\* so a second Delete of the same id changes nothing.
C10_DeleteMissingIsNoOp ==
    [][/\ (lastOp'.op = "Delete" /\ lastOp'.id \notin DOMAIN textH[lastOp'.key]) =>
             (lastOp'.err = "nil" /\ store' = store)
       /\ (lastOp'.op = "Delete" /\ lastOp'.err = "nil") =>
             /\ lastOp'.id \notin DOMAIN textH'[lastOp'.key]
             /\ lastOp'.id \notin DOMAIN displayH'[lastOp'.key]
             /\ lastOp'.id \notin DOMAIN metaH'[lastOp'.key]]_vars

\* a Delete of an id without a text record, in a namespace that holds keys
C10_Witness ==
    /\ lastOp.op = "Delete" /\ ~lastOp.found /\ lastOp.err = "nil"
    /\ DOMAIN zset[lastOp.key] # {}

---------------------------------------------------------------------------
(* What the stored entries are expected to hold *)

StoredIds(key) == DOMAIN textH[key]

\* the case flag ac:meta records for a stored id
StoredCaseSensitive(key, id) == deleteCaseSensitive(HGet(metaH[key], id))

\* the text of a stored id as its tokens were built from it
StoredNormalized(key, id) == NormalizeText(textH[key][id], StoredCaseSensitive(key, id))

\* the composite keys the last Index of a stored id wrote
StoredMembers(key, id) == IndexMembers(textH[key][id], id, idxOpts[key][id])

Substrings(t) == {Slice(t, i, j) : i \in 0..Len(t), j \in 0..Len(t)} \ {<<>>}

IsPrefixOf(q, t) == Len(q) <= Len(t) /\ SubSeq(t, 1, Len(q)) = q

Contains(t, q) == q \in Substrings(t) \/ q = <<>>

Windows(q, n) == {Slice(q, i, i + n) : i \in 0..(Len(q) - n)}

\* C2: a second Index of a stored id leaves no composite key of the id that
\* the tokenizer does not produce for the new text.
C2_ReindexRemovesOldKeys ==
    (lastOp.op = "Index" /\ lastOp.found) =>
        KeysOf(lastOp.key, lastOp.id) \subseteq StoredMembers(lastOp.key, lastOp.id)

\* C3: the token index holds exactly the tokenizer output of the stored
\* entries.
C3_TokenIndexExact ==
    \A key \in Keys :
        DOMAIN zset[key] = UNION {StoredMembers(key, id) : id \in StoredIds(key)}

\* C4: Delete leaves every composite key written for another id, and the
\* records of every other id, as they were.
C4_DeleteFrame ==
    [][lastOp'.op = "Delete" =>
          \A other \in StoredIds(lastOp'.key) \ {lastOp'.id} :
              /\ (StoredMembers(lastOp'.key, other) \cap DOMAIN zset[lastOp'.key])
                     \subseteq DOMAIN zset'[lastOp'.key]
              /\ HGet(textH'[lastOp'.key], other) = HGet(textH[lastOp'.key], other)
              /\ HGet(displayH'[lastOp'.key], other) = HGet(displayH[lastOp'.key], other)
              /\ HGet(metaH'[lastOp'.key], other) = HGet(metaH[lastOp'.key], other)]_vars

\* C5: every entry indexed with Substring is returned by a Substring query
\* for any substring of its normalized text, the limit being at least the
\* number of entries.
C5_SubstringFindsEverySubstring ==
    \A key \in Keys : \A id \in StoredIds(key) :
        idxOpts[key][id].MatchStrategy = MatchSubstring =>
            \A query \in Substrings(StoredNormalized(key, id)) :
                \A options \in QueryOptionsSet \cup DenseQueryOptionsSet :
                    (/\ options.MatchStrategy = MatchSubstring
                     /\ options.CaseSensitive = StoredCaseSensitive(key, id)
                     /\ options.MaxResults >= Cardinality(StoredIds(key))) =>
                        \A res \in ProviderQuery(zset[key], displayH[key], query, options) :
                            id \in ResultIDs(res)

\* C6: no entry indexed with Prefix is returned by a Prefix query for a
\* substring of its normalized text that is not a prefix of it.
C6_PrefixRejectsNonPrefix ==
    \A key \in Keys : \A id \in StoredIds(key) :
        idxOpts[key][id].MatchStrategy = MatchPrefix =>
            \A query \in Substrings(StoredNormalized(key, id)) :
                ~IsPrefixOf(query, StoredNormalized(key, id)) =>
                    \A options \in QueryOptionsSet :
                        (/\ options.MatchStrategy = MatchPrefix
                         /\ options.CaseSensitive = StoredCaseSensitive(key, id)) =>
                            \A res \in ProviderQuery(zset[key], displayH[key],
                                                     query, options) :
                                id \notin ResultIDs(res)

\* the normalized query and the n-gram size Provider.Query works with
SearchQuery(query, options) == NormalizeText(query, options.CaseSensitive)

QuerySize(options) == getNGramSizeOrDefault(options.NGramSize)

IsSlidingWindow(query, options) ==
    /\ options.MatchStrategy = MatchNGram
    /\ Len(SearchQuery(query, options)) > QuerySize(options)

\* C7: a sliding-window NGram query (longer than n) returns every entry
\* indexed with NGram of that size whose normalized text contains the query,
\* the limit being at least the number of entries.
C7_SlidingWindowFindsContaining ==
    \A key \in Keys : \A query \in DenseQueries :
        \A options \in DenseQueryOptionsSet :
            (/\ IsSlidingWindow(query, options)
             /\ options.MaxResults >= Cardinality(StoredIds(key))) =>
                \A id \in StoredIds(key) :
                    (/\ idxOpts[key][id].MatchStrategy = MatchNGram
                     /\ getNGramSizeOrDefault(idxOpts[key][id].NGramSize)
                            = QuerySize(options)
                     /\ StoredCaseSensitive(key, id) = options.CaseSensitive
                     /\ Contains(StoredNormalized(key, id), SearchQuery(query, options)))
                    => \A res \in ProviderQuery(zset[key], displayH[key], query, options) :
                           id \in ResultIDs(res)

\* C8: a sliding-window NGram query returns an id only if every length-n
\* window of the normalized query is an n-gram of the id's stored normalized
\* text.
C8_SlidingWindowNeedsEveryWindow ==
    \A key \in Keys : \A query \in Queries :
        \A options \in QueryOptionsSet :
            IsSlidingWindow(query, options) =>
                \A res \in ProviderQuery(zset[key], displayH[key], query, options) :
                    \A id \in ResultIDs(res) :
                        /\ id \in StoredIds(key)
                        /\ \A w \in Windows(SearchQuery(query, options), QuerySize(options)) :
                               Contains(StoredNormalized(key, id), w)

\* what a query has to find in the text for the entry to match it: each
\* window for a sliding-window query, the whole query otherwise
MatchesText(text, query, options) ==
    IF IsSlidingWindow(query, options)
    THEN \A w \in Windows(query, QuerySize(options)) : Contains(text, w)
    ELSE Contains(text, query)

\* C9: an entry indexed case-sensitive is returned by a case-sensitive query
\* only when the query occurs in the text in its original case; an entry
\* indexed case-insensitive with Prefix or Substring is returned by a
\* case-insensitive query of that strategy in any letter-casing of a prefix
\* (substring) of its text.
C9_CaseSensitivity ==
    \A key \in Keys : \A id \in StoredIds(key) : \A query \in Queries :
        \A options \in QueryOptionsSet :
            \A res \in ProviderQuery(zset[key], displayH[key], query, options) :
                /\ (/\ StoredCaseSensitive(key, id) /\ options.CaseSensitive
                    /\ id \in ResultIDs(res))
                       => MatchesText(textH[key][id], query, options)
                /\ (/\ ~StoredCaseSensitive(key, id) /\ ~options.CaseSensitive
                    /\ options.MatchStrategy = idxOpts[key][id].MatchStrategy
                    /\ options.MaxResults >= Cardinality(StoredIds(key))
                    /\ \/ /\ options.MatchStrategy = MatchPrefix
                          /\ IsPrefixOf(ToLower(query), ToLower(textH[key][id]))
                       \/ /\ options.MatchStrategy = MatchSubstring
                          /\ Contains(ToLower(textH[key][id]), ToLower(query)))
                       => id \in ResultIDs(res)

---------------------------------------------------------------------------
(* DeleteAll and namespaces *)

\* query options with any limit, the ones no caller-facing layer passes included
AnyLimitOptionsSet ==
    {o \in [MaxResults : {-1, 0, 1, 3}, MatchStrategy : MatchPrefix..MatchSubstring,
            NGramSize : {0, 1, 2}, CaseSensitive : BOOLEAN] :
        o.MatchStrategy \in {MatchPrefix, MatchSubstring} => o.NGramSize = 0}

NamespaceEmpty(key) ==
    /\ zset[key] = NoHash /\ textH[key] = NoHash
    /\ displayH[key] = NoHash /\ metaH[key] = NoHash

\* the step is an Index call on namespace key
IndexOn(key) == nIndex' # nIndex /\ lastOp'.key = key

\* C11: DeleteAll leaves the four tables of the namespace empty; they stay
\* empty until the next Index on the namespace, and while they are empty
\* every Query on it (any query string, strategy, n-gram size and limit)
\* returns the empty result.
C11_DeleteAllEmpties ==
    /\ [](\A key \in DOMAIN zset :
             NamespaceEmpty(key) =>
                 \A query \in SepQueries \cup Queries, options \in AnyLimitOptionsSet :
                     ProviderQuery(zset[key], displayH[key], query, options) = {<<>>})
    /\ [][\A key \in DOMAIN zset :
             /\ (lastOp'.op = "DeleteAll" /\ lastOp'.key = key) => NamespaceEmpty(key)'
             /\ (NamespaceEmpty(key) /\ ~IndexOn(key)) => NamespaceEmpty(key)']_vars

\* a DeleteAll that removed the composite keys and records of two entries
C11_Witness ==
    /\ lastOp.op = "DeleteAll" /\ lastOp.n > 2
    /\ nIndex = MaxIndex
    /\ NamespaceEmpty(lastOp.key)

\* the name of the Redis key that holds a table of a namespace
RedisKey(prefix, key) == prefix \o key

TablePrefixes == {prefixSet, prefixDisplay, prefixText, prefixMeta}

\* two namespaces, one name a prefix of the other and holding the separator
Namespaces == {"a", "a:b"}

NsIds == {<<"1">>, <<"2">>}

NsTexts == {<<"a", "b">>, <<"b">>}

NsDisplays == {"d", "e"}

NsOptionsSet ==
    {[Score |-> 1, MatchStrategy |-> MatchPrefix, NGramSize |-> 0, CaseSensitive |-> FALSE],
     [Score |-> 1, MatchStrategy |-> MatchSubstring, NGramSize |-> 0, CaseSensitive |-> TRUE]}

NsQueries == {<<"a">>, <<"b">>, <<"a", "b">>}

InitNs ==
    /\ zset = [k \in Namespaces |-> NoHash]
    /\ textH = [k \in Namespaces |-> NoHash]
    /\ displayH = [k \in Namespaces |-> NoHash]
    /\ metaH = [k \in Namespaces |-> NoHash]
    /\ idxOpts = [k \in Namespaces |-> NoHash]
    /\ result = [res |-> <<>>, err |-> "nil"]
    /\ lastOp = [op |-> "none", key |-> "", id |-> NoId, err |-> "nil",
                 fresh |-> FALSE, found |-> FALSE, n |-> 0]
    /\ nIndex = 0
    /\ providerFactories = InitFactories
    /\ ac = NoInstance
    /\ inflight = Idle
    /\ documents = NoHash

NextNs ==
    \/ \E key \in Namespaces, id \in NsIds, text \in NsTexts, display \in NsDisplays,
          options \in NsOptionsSet : Index(key, id, text, display, options)
          /\ UNCHANGED outer
    \/ \E key \in Namespaces, id \in NsIds : Delete(key, id)
          /\ UNCHANGED outer
    \/ \E key \in Namespaces : DeleteAll(key)
          /\ UNCHANGED outer

SpecNs == InitNs /\ [][NextNs]_vars

\* C12: the tables of two namespaces are different Redis keys; Index, Delete
\* and DeleteAll on one namespace leave the four tables of every other
\* namespace unchanged; a Query on a namespace returns only ids stored in
\* that namespace, with the display stored there.
C12_NamespaceIsolation ==
    /\ [](\A p1 \in TablePrefixes, p2 \in TablePrefixes :
             \A k1 \in Namespaces, k2 \in Namespaces :
                 RedisKey(p1, k1) = RedisKey(p2, k2) => (p1 = p2 /\ k1 = k2))
    /\ [](\A key \in Namespaces, query \in NsQueries, options \in QueryOptionsSet :
             \A res \in ProviderQuery(zset[key], displayH[key], query, options) :
                 \A i \in DOMAIN res :
                     /\ res[i].ID \in DOMAIN textH[key]
                     /\ res[i].Display = displayH[key][res[i].ID])
    /\ [][\A other \in Namespaces \ {lastOp'.key} :
             /\ zset'[other] = zset[other] /\ textH'[other] = textH[other]
             /\ displayH'[other] = displayH[other] /\ metaH'[other] = metaH[other]]_vars

\* a DeleteAll that removed the keys of one namespace while the other
\* namespace holds an entry
C12_Witness ==
    /\ lastOp.op = "DeleteAll" /\ lastOp.n > 0
    /\ \E other \in Namespaces \ {lastOp.key} :
           /\ zset[other] # NoHash
           /\ DOMAIN textH[other] # {}

---------------------------------------------------------------------------
(* Concurrent callers: each provider call as the backend commands it issues *)

\* one backend command of a pipeline
Cmd(cmd, table, key, field, value, members) ==
    [cmd |-> cmd, table |-> table, key |-> key, field |-> field, value |-> value,
     members |-> members]

\* the commands Provider.Index queues, in order (the ZAdds as one batch)
IndexPipeline(key, id, text, display, options) ==
    <<Cmd("ZADD", "set", key, id, options.Score, IndexMembers(text, id, options)),
      Cmd("HSET", "text", key, id, text, {}),
      Cmd("HSET", "display", key, id, display, {}),
      IF options.CaseSensitive THEN Cmd("HSET", "meta", key, id, "1", {})
      ELSE Cmd("HDEL", "meta", key, id, "", {})>>

\* the commands Provider.Delete queues, in order (the ZRems as one batch)
DeletePipeline(key, id, members) ==
    <<Cmd("ZREM", "set", key, id, "", members),
      Cmd("HDEL", "text", key, id, "", {}),
      Cmd("HDEL", "display", key, id, "", {}),
      Cmd("HDEL", "meta", key, id, "", {})>>

\* a hash after command c
HashAfter(h, table, c) ==
    IF c.table # table THEN h
    ELSE IF c.cmd = "HSET" THEN [h EXCEPT ![c.key] = HSet(@, c.field, c.value)]
    ELSE [h EXCEPT ![c.key] = HDel(@, c.field)]

\* the backend executes command c
ExecCmd(c) ==
    /\ zset' = IF c.cmd = "ZADD" THEN [zset EXCEPT ![c.key] = ZAdd(@, c.members, c.value)]
               ELSE IF c.cmd = "ZREM" THEN [zset EXCEPT ![c.key] = ZRem(@, c.members)]
               ELSE zset
    /\ textH' = HashAfter(textH, "text", c)
    /\ displayH' = HashAfter(displayH, "display", c)
    /\ metaH' = HashAfter(metaH, "meta", c)

InProgress(slot) == slot.pc \notin {"idle", "done"}

\* the call in slot is in progress on (key, id)
Overlaps(slot, key, id) == InProgress(slot) /\ slot.key = key /\ slot.id = id

\* slot with one more call counted that ran while it was in progress
Partnered(slot) == [slot EXCEPT !.partners = IF @ < 2 THEN @ + 1 ELSE @]

\* Provider.Index up to the queueing of its pipeline
IndexBegin(key, id, text, display, options) ==
    LET del == inflight.del
        over == Overlaps(del, key, id)
    IN /\ ~InProgress(inflight.idx)
       /\ nIndex < MaxIndex
       /\ inflight' = [inflight EXCEPT
              !.idx = [pc |-> "exec", key |-> key, id |-> id, text |-> text,
                       display |-> display, options |-> options,
                       pipe |-> IndexPipeline(key, id, text, display, options),
                       partners |-> IF over THEN 1 ELSE 0,
                       pre |-> IF over THEN del.pre ELSE id \in DOMAIN textH[key]],
              !.del = IF over THEN Partnered(del) ELSE del]
       /\ nIndex' = nIndex + 1
       /\ UNCHANGED <<store, result, lastOp, idxOpts>>

\* the backend executes the next command of Index's pipeline
IndexExec ==
    LET idx == inflight.idx
    IN /\ idx.pc = "exec"
       /\ ExecCmd(Head(idx.pipe))
       /\ inflight' = [inflight EXCEPT
              !.idx.pipe = Tail(idx.pipe),
              !.idx.pc = IF Len(idx.pipe) > 1 THEN "exec" ELSE "done"]
       /\ UNCHANGED <<result, lastOp, idxOpts, nIndex>>

\* Provider.Delete up to its read of the stored text
DeleteRead(key, id) ==
    LET idx == inflight.idx
        over == Overlaps(idx, key, id)
        r == HGet(textH[key], id)
        call == [key |-> key, id |-> id, text |-> r.val,
                 partners |-> IF over THEN 1 ELSE 0,
                 pre |-> IF over THEN idx.pre ELSE id \in DOMAIN textH[key]]
    IN /\ ~InProgress(inflight.del)
       /\ inflight' = [inflight EXCEPT
              !.del = IF deleteReadFailed(r)
                      THEN call @@ [pc |-> "done", err |-> "failed to get text for deletion",
                                    pipe |-> <<>>]
                      ELSE IF r.val # <<>>
                      THEN call @@ [pc |-> "meta", err |-> "nil", pipe |-> <<>>]
                      ELSE call @@ [pc |-> "exec", err |-> "nil",
                                    pipe |-> DeletePipeline(key, id, {})],
              !.idx = IF over THEN Partnered(idx) ELSE idx]
       /\ UNCHANGED <<store, result, lastOp, idxOpts, nIndex>>

\* Provider.Delete: the read of the case flag, and the queueing of the pipeline
DeleteReadMeta ==
    LET del == inflight.del
        meta == HGet(metaH[del.key], del.id)
    IN /\ del.pc = "meta"
       /\ inflight' = [inflight EXCEPT
              !.del.pc = "exec",
              !.del.pipe = DeletePipeline(del.key, del.id,
                                          DeleteMembers(del.text, meta, del.id))]
       /\ UNCHANGED <<store, result, lastOp, idxOpts, nIndex>>

\* the backend executes the next command of Delete's pipeline
DeleteExec ==
    LET del == inflight.del
    IN /\ del.pc = "exec"
       /\ ExecCmd(Head(del.pipe))
       /\ inflight' = [inflight EXCEPT
              !.del.pipe = Tail(del.pipe),
              !.del.text = IF Len(del.pipe) > 1 THEN @ ELSE <<>>,
              !.del.pc = IF Len(del.pipe) > 1 THEN "exec" ELSE "done"]
       /\ UNCHANGED <<result, lastOp, idxOpts, nIndex>>

\* Provider.Query without the early return for a NOrMoreGram query shorter than n
queryPlanNoShortReturn(searchQuery, options) ==
    LET n == getNGramSizeOrDefault(options.NGramSize)
    IN IF options.MatchStrategy = MatchNGram /\ Len(searchQuery) < 1 THEN "empty"
       ELSE IF options.MatchStrategy = MatchNGram /\ Len(searchQuery) > n THEN "windows"
       ELSE "scan"

\* what Provider.Query decides before its first backend command
queryPlan(searchQuery, options) ==
    LET n == getNGramSizeOrDefault(options.NGramSize)
    IN IF options.MatchStrategy = MatchNGram /\ Len(searchQuery) < 1 THEN "empty"
       ELSE IF options.MatchStrategy = MatchNGram /\ Len(searchQuery) > n THEN "windows"
       ELSE IF options.MatchStrategy = MatchNOrMoreGram /\ Len(searchQuery) < n THEN "empty"
       ELSE "scan"

\* the record of a Query that has returned
Returned(q, res, err) ==
    [q EXCEPT !.pc = "done", !.err = err, !.query = <<>>, !.i = 0, !.ngramSets = <<>>]

\* Provider.Query up to its first backend command
QueryBegin(key, query, options) ==
    LET searchQuery == NormalizeText(query, options.CaseSensitive)
        plan == queryPlan(searchQuery, options)
        q == [pc |-> plan, key |-> key, query |-> query, searchQuery |-> searchQuery,
              options |-> options, n |-> getNGramSizeOrDefault(options.NGramSize),
              i |-> 0, ngramSets |-> <<>>, ids |-> <<>>, scans |-> 0, fetches |-> 0,
              err |-> "nil"]
    IN /\ ~InProgress(inflight.q)
       /\ IF plan = "empty"
          THEN /\ inflight' = [inflight EXCEPT !.q = Returned(q, <<>>, "nil")]
               /\ result' = [res |-> <<>>, err |-> "nil"]
          ELSE /\ inflight' = [inflight EXCEPT !.q = q]
               /\ UNCHANGED result
       /\ UNCHANGED <<store, lastOp, idxOpts, nIndex>>

\* Provider.Query: the single range scan and the decoding of its hits;
\* fetchProviderResults returns at once when there is no id to fetch
QueryScan ==
    LET q == inflight.q
        results == ZRangeByLex(zset[q.key], createLexicographicStartKey(q.searchQuery),
                               createLexicographicEndKey(q.searchQuery),
                               q.options.MaxResults * resultMultiplierForDuplicates)
        ids == extractUniqueIDsFromResults(results, q.options)
        scanned == [q EXCEPT !.scans = @ + 1, !.ids = ids]
    IN /\ q.pc = "scan"
       /\ IF Len(ids) = 0
          THEN /\ inflight' = [inflight EXCEPT !.q = Returned(scanned, <<>>, "nil")]
               /\ result' = [res |-> <<>>, err |-> "nil"]
          ELSE /\ inflight' = [inflight EXCEPT !.q = [scanned EXCEPT !.pc = "fetch"]]
               /\ UNCHANGED result
       /\ UNCHANGED <<store, lastOp, idxOpts, nIndex>>

\* queryNGramSlidingWindow without the return on an empty window
QueryWindowScanNoShortCircuit ==
    LET q == inflight.q
        ngram == Slice(q.searchQuery, q.i, q.i + q.n)
        results == ZRangeByLex(zset[q.key], createLexicographicStartKey(ngram),
                               createLexicographicEndKey(ngram),
                               q.options.MaxResults * resultMultiplierForIntersection)
        idSet == extractIDsFromResults(results, minMemberPartsForPositionalID)
        ngramSets == Append(q.ngramSets, idSet)
        scanned == [q EXCEPT !.scans = @ + 1, !.i = @ + 1, !.ngramSets = ngramSets]
    IN /\ q.pc = "windows"
       /\ IF q.i + 1 <= Len(q.searchQuery) - q.n
          THEN /\ inflight' = [inflight EXCEPT !.q = scanned]
               /\ UNCHANGED result
          ELSE \E all \in intersectIDSets(ngramSets) :
                  LET ids == limitResults(all, q.options.MaxResults)
                  IN IF Len(ids) = 0
                     THEN /\ inflight' = [inflight EXCEPT
                                            !.q = Returned(scanned, <<>>, "nil")]
                          /\ result' = [res |-> <<>>, err |-> "nil"]
                     ELSE /\ inflight' = [inflight EXCEPT
                                 !.q = [scanned EXCEPT !.pc = "fetch", !.ids = ids]]
                          /\ UNCHANGED result
       /\ UNCHANGED <<store, lastOp, idxOpts, nIndex>>

\* queryNGramSlidingWindow: the range scan of window q.i
QueryWindowScan ==
    LET q == inflight.q
        ngram == Slice(q.searchQuery, q.i, q.i + q.n)
        results == ZRangeByLex(zset[q.key], createLexicographicStartKey(ngram),
                               createLexicographicEndKey(ngram),
                               q.options.MaxResults * resultMultiplierForIntersection)
        idSet == extractIDsFromResults(results, minMemberPartsForPositionalID)
        ngramSets == Append(q.ngramSets, idSet)
        scanned == [q EXCEPT !.scans = @ + 1, !.i = @ + 1, !.ngramSets = ngramSets]
    IN /\ q.pc = "windows"
       /\ IF isEmptySet(idSet)
          THEN /\ inflight' = [inflight EXCEPT !.q = Returned(scanned, <<>>, "nil")]
               /\ result' = [res |-> <<>>, err |-> "nil"]
          ELSE IF q.i + 1 <= Len(q.searchQuery) - q.n
          THEN /\ inflight' = [inflight EXCEPT !.q = scanned]
               /\ UNCHANGED result
          ELSE \E all \in intersectIDSets(ngramSets) :
                  LET ids == limitResults(all, q.options.MaxResults)
                  IN IF Len(ids) = 0
                     THEN /\ inflight' = [inflight EXCEPT
                                            !.q = Returned(scanned, <<>>, "nil")]
                          /\ result' = [res |-> <<>>, err |-> "nil"]
                     ELSE /\ inflight' = [inflight EXCEPT
                                 !.q = [scanned EXCEPT !.pc = "fetch", !.ids = ids]]
                          /\ UNCHANGED result
       /\ UNCHANGED <<store, lastOp, idxOpts, nIndex>>

\* fetchProviderResults: the HMGet of the display texts and the assembly
QueryFetch ==
    LET q == inflight.q
        res == fetchProviderResults(displayH[q.key], q.ids)
    IN /\ q.pc = "fetch"
       /\ inflight' = [inflight EXCEPT
              !.q = Returned([q EXCEPT !.fetches = @ + 1], res, "nil")]
       /\ result' = [res |-> res, err |-> "nil"]
       /\ UNCHANGED <<store, lastOp, idxOpts, nIndex>>

ConcIds == {<<"1">>, <<"2">>}

ConcTexts == {<<"a", "b">>}

ConcOptionsSet ==
    {[Score |-> 1, MatchStrategy |-> MatchNGram, NGramSize |-> 1, CaseSensitive |-> FALSE],
     [Score |-> 1, MatchStrategy |-> MatchNOrMoreGram, NGramSize |-> 2,
      CaseSensitive |-> FALSE]}

ConcQueries == {<<"b">>, <<"a", "b">>}

ConcQueryOptionsSet ==
    {[MaxResults |-> 2, MatchStrategy |-> MatchNGram, NGramSize |-> 1,
      CaseSensitive |-> FALSE],
     [MaxResults |-> 2, MatchStrategy |-> MatchNOrMoreGram, NGramSize |-> 2,
      CaseSensitive |-> FALSE]}

\* a Query and a Delete as the backend commands they issue, interleaved with
\* each other and with Index calls
NextConc ==
    \/ \E key \in Keys, id \in ConcIds, text \in ConcTexts, display \in Displays,
          options \in ConcOptionsSet : Index(key, id, text, display, options)
          /\ UNCHANGED outer
    \/ \E key \in Keys, id \in ConcIds : DeleteRead(key, id)
          /\ UNCHANGED <<providerFactories, ac, documents>>
    \/ DeleteReadMeta /\ UNCHANGED <<providerFactories, ac, documents>>
    \/ DeleteExec /\ UNCHANGED <<providerFactories, ac, documents>>
    \/ \E key \in Keys, query \in ConcQueries, options \in ConcQueryOptionsSet :
          QueryBegin(key, query, options)
          /\ UNCHANGED <<providerFactories, ac, documents>>
    \/ QueryScan /\ UNCHANGED <<providerFactories, ac, documents>>
    \/ QueryWindowScan /\ UNCHANGED <<providerFactories, ac, documents>>
    \/ QueryFetch /\ UNCHANGED <<providerFactories, ac, documents>>

SpecConc == Init /\ [][NextConc]_vars

\* an Index and a Delete as the backend commands they issue, interleaved
RaceTexts == {<<"a", "b">>, <<"b">>}

NextRace ==
    \/ \E key \in Keys, id \in ConcIds, text \in RaceTexts, display \in Displays,
          options \in ConcOptionsSet : IndexBegin(key, id, text, display, options)
          /\ UNCHANGED <<providerFactories, ac, documents>>
    \/ IndexExec /\ UNCHANGED <<providerFactories, ac, documents>>
    \/ \E key \in Keys, id \in ConcIds : DeleteRead(key, id)
          /\ UNCHANGED <<providerFactories, ac, documents>>
    \/ DeleteReadMeta /\ UNCHANGED <<providerFactories, ac, documents>>
    \/ DeleteExec /\ UNCHANGED <<providerFactories, ac, documents>>

SpecRace == Init /\ [][NextRace]_vars

---------------------------------------------------------------------------
(* Claims about a Query's backend commands and about concurrent callers *)

\* the Query in slot q is a NOrMoreGram query shorter than its n
ShortNOrMoreGram(q) ==
    /\ q.pc # "idle"
    /\ q.options.MatchStrategy = MatchNOrMoreGram
    /\ Len(q.searchQuery) < getNGramSizeOrDefault(q.options.NGramSize)

\* C13: a NOrMoreGram Query whose normalized string is shorter than n has
\* returned the empty result, with no error, before any backend command:
\* it is never waiting on a range scan or a display fetch, and it has
\* issued none.
C13_ShortNOrMoreGramNoScan ==
    ShortNOrMoreGram(inflight.q) =>
        /\ inflight.q.pc = "done"
        /\ inflight.q.scans = 0 /\ inflight.q.fetches = 0
        /\ result.res = <<>> /\ result.err = "nil"

\* such a Query has returned while the sorted set holds a key that a range
\* scan for its string would have hit
C13_Witness ==
    /\ ShortNOrMoreGram(inflight.q)
    /\ inflight.q.pc = "done"
    /\ \E m \in DOMAIN zset[inflight.q.key] : IsPrefixOf(inflight.q.searchQuery, m)

\* C17: the Query step that fetches the display texts returns no error and
\* exactly the scanned ids that still have a display text, each with that
\* (non-empty) display; an id whose display a concurrent Delete has removed
\* since the scan is left out.
C17_MissingDisplayDropped ==
    [][(inflight.q.pc = "fetch" /\ inflight'.q.pc = "done") =>
          LET q == inflight.q
              d == displayH[q.key]
          IN /\ result'.err = "nil"
             /\ ResultIDs(result'.res) = Range(q.ids) \cap DOMAIN d
             /\ \A i \in DOMAIN result'.res :
                    /\ result'.res[i].Display = d[result'.res[i].ID]
                    /\ result'.res[i].Display # ""]_vars

\* a Query has returned one of two scanned ids: the other one's display was
\* removed by a Delete that began after the scan
C17_Witness ==
    /\ inflight.q.pc = "done" /\ inflight.q.fetches = 1
    /\ Len(result.res) = 1 /\ Len(inflight.q.ids) = 2
    /\ inflight.del.pc \in {"exec", "done"}
    /\ inflight.del.id \in Range(inflight.q.ids) \ ResultIDs(result.res)

\* an Index and a Delete of one stored id have both returned, each having
\* run while the other was in progress, and no third call with them
RacedPair ==
    LET idx == inflight.idx
        del == inflight.del
    IN /\ idx.pc = "done" /\ del.pc = "done"
       /\ idx.key = del.key /\ idx.id = del.id
       /\ idx.partners = 1 /\ del.partners = 1
       /\ idx.pre /\ del.pre

\* id is stored as the call in slot idx indexed it, with exactly its tokens
StoredAsIndexed(idx) ==
    /\ HGet(textH[idx.key], idx.id) = [val |-> idx.text, err |-> "nil"]
    /\ HGet(displayH[idx.key], idx.id) = [val |-> idx.display, err |-> "nil"]
    /\ deleteCaseSensitive(HGet(metaH[idx.key], idx.id)) = idx.options.CaseSensitive
    /\ KeysOf(idx.key, idx.id) = IndexMembers(idx.text, idx.id, idx.options)

\* C18: after an Index and a Delete of a stored id ran concurrently, the id
\* is either absent with no composite key left, or stored with the text,
\* display and exactly the tokens of the Index.
C18_IndexDeleteSerializable ==
    RacedPair => (Absent(inflight.idx.key, inflight.idx.id) \/ StoredAsIndexed(inflight.idx))

---------------------------------------------------------------------------
(* The caller-facing layer: registry, New and autocompleteImpl *)

\* a caller-facing call returns: operation, arguments, error, results and the
\* provider calls it made
Called(op, args, err, res, calls) ==
    [ac EXCEPT !.op = op, !.args = args, !.err = err, !.res = res, !.calls = calls]

providerUntouched == UNCHANGED <<store, result, lastOp, idxOpts, nIndex>>

RegisterProvider(name, factory) ==
    /\ providerFactories' =
           [n \in DOMAIN providerFactories \cup {ToLower(name)} |->
               IF n = ToLower(name) THEN factory ELSE providerFactories[n]]
    /\ ac' = [Called("RegisterProvider", <<name>>, "nil", <<>>, <<>>)
                 EXCEPT !.reg = [name |-> name, factory |-> factory]]
    /\ providerUntouched

\* New falling back to the redis factory for an unknown provider type
NewWithFallback(providerType, config) ==
    LET factory == IF providerType \in DOMAIN providerFactories
                   THEN providerFactories[providerType] ELSE "redis.NewProvider"
    IN /\ ac' = [Called("New", <<providerType>>, "nil", <<"AutoComplete">>, <<factory>>)
                    EXCEPT !.created = TRUE, !.factory = factory, !.config = config]
       /\ UNCHANGED providerFactories
       /\ providerUntouched

\* res is the instance returned (none on an error), calls the factory invoked
New(providerType, config) ==
    /\ IF providerType \in DOMAIN providerFactories
       THEN ac' = [Called("New", <<providerType>>, "nil", <<"AutoComplete">>,
                          <<providerFactories[providerType]>>)
                      EXCEPT !.created = TRUE,
                             !.factory = providerFactories[providerType],
                             !.config = config]
       ELSE ac' = Called("New", <<providerType>>, "ErrProviderNotFound", <<>>, <<>>)
    /\ UNCHANGED providerFactories
    /\ providerUntouched

\* an instance backed by the provider modelled here exists
Serving == ac.created /\ ac.factory = "redis.NewProvider"

\* the IndexOptions autocompleteImpl.Index builds from its configuration
ImplIndexOptions(o) ==
    [Score |-> 1, MatchStrategy |-> o.MatchStrategy, NGramSize |-> o.NGramSize,
     CaseSensitive |-> o.CaseSensitive]

\* the QueryOptions autocompleteImpl.Query builds
ImplQueryOptions(o, limit) ==
    [MaxResults |-> limit, MatchStrategy |-> o.MatchStrategy, NGramSize |-> o.NGramSize,
     CaseSensitive |-> o.CaseSensitive]

\* autocompleteImpl.Index with the text checked before the id
ImplIndexTextFirst(id, text, display) ==
    LET args == <<id, text, display>>
        err == IF text = <<>> THEN "ErrEmptyText"
               ELSE IF id = <<>> THEN "ErrEmptyID"
               ELSE IF display = "" THEN "ErrEmptyDisplay"
               ELSE "nil"
    IN /\ Serving
       /\ IF err # "nil"
          THEN ac' = Called("Index", args, err, <<>>, <<>>) /\ providerUntouched
          ELSE /\ Index(ac.config.Namespace, id, text, display,
                        ImplIndexOptions(ac.config))
               /\ ac' = Called("Index", args, "nil", <<>>, <<"Index">>)
       /\ UNCHANGED providerFactories

ImplIndex(id, text, display) ==
    LET args == <<id, text, display>>
        err == IF id = <<>> THEN "ErrEmptyID"
               ELSE IF text = <<>> THEN "ErrEmptyText"
               ELSE IF display = "" THEN "ErrEmptyDisplay"
               ELSE "nil"
    IN /\ Serving
       /\ IF err # "nil"
          THEN ac' = Called("Index", args, err, <<>>, <<>>) /\ providerUntouched
          ELSE /\ Index(ac.config.Namespace, id, text, display,
                        ImplIndexOptions(ac.config))
               /\ ac' = Called("Index", args, "nil", <<>>, <<"Index">>)
       /\ UNCHANGED providerFactories

\* the limit with only a negative one replaced by DefaultLimit
effectiveLimitNegativeOnly(o, limit) == IF limit < 0 THEN o.DefaultLimit ELSE limit

\* the limit autocompleteImpl.Query works with
effectiveLimit(o, limit) == IF limit <= 0 THEN o.DefaultLimit ELSE limit

\* what autocompleteImpl.Query decides before it calls the provider: the
\* error it returns, or the options of the provider call it makes
implQueryPlan(o, query, limit) ==
    LET lim == effectiveLimit(o, limit)
    IN IF Len(query) < o.MinPrefixLength
       THEN [err |-> "ErrQueryTooShort", call |-> <<>>]
       ELSE IF lim > o.MaxLimit
       THEN [err |-> "ErrLimitExceeded", call |-> <<>>]
       ELSE [err |-> "nil", call |-> <<ImplQueryOptions(o, lim)>>]

\* autocompleteImpl.Query with the limit checked before the query length
ImplQueryLimitFirst(query, limit) ==
    LET args == <<query, limit>>
        o == ac.config
        lim == effectiveLimit(o, limit)
    IN /\ Serving
       /\ IF lim > o.MaxLimit
          THEN ac' = Called("Query", args, "ErrLimitExceeded", <<>>, <<>>)
               /\ providerUntouched
          ELSE IF Len(query) < o.MinPrefixLength
          THEN ac' = Called("Query", args, "ErrQueryTooShort", <<>>, <<>>)
               /\ providerUntouched
          ELSE /\ Query(o.Namespace, query, ImplQueryOptions(o, lim))
               /\ ac' = Called("Query", args, "nil", result'.res, <<"Query">>)
       /\ UNCHANGED providerFactories

ImplQuery(query, limit) ==
    LET args == <<query, limit>>
        o == ac.config
        plan == implQueryPlan(o, query, limit)
    IN /\ Serving
       /\ IF plan.err # "nil"
          THEN ac' = Called("Query", args, plan.err, <<>>, <<>>)
               /\ providerUntouched
          ELSE /\ Query(o.Namespace, query, plan.call[1])
               /\ ac' = Called("Query", args, "nil", result'.res, <<"Query">>)
       /\ UNCHANGED providerFactories

ImplDelete(id) ==
    /\ Serving
    /\ IF id = <<>>
       THEN ac' = Called("Delete", <<id>>, "ErrEmptyID", <<>>, <<>>) /\ providerUntouched
       ELSE /\ Delete(ac.config.Namespace, id)
            /\ ac' = Called("Delete", <<id>>, lastOp'.err, <<>>, <<"Delete">>)
    /\ UNCHANGED providerFactories

ImplDeleteAll ==
    /\ Serving
    /\ DeleteAll(ac.config.Namespace)
    /\ ac' = Called("DeleteAll", <<>>, "nil", <<>>, <<"DeleteAll">>)
    /\ UNCHANGED providerFactories

\* the arguments explored: the empty id, text, display and query included
ProviderTypes ==
    {<<"r", "e", "d", "i", "s">>, <<"A", "b">>, <<"a", "b">>, <<"A", "B">>}

Factories == {"redis.NewProvider", "elasticsearch.NewProvider"}

AppOptionsSet ==
    [DefaultLimit : {0, 1, 3}, MaxLimit : {2}, CaseSensitive : {FALSE},
     MinPrefixLength : {2}, Namespace : Keys, MatchStrategy : {MatchPrefix},
     NGramSize : {0}]

AppIds == {<<>>, <<"1">>}

AppTexts == {<<>>, <<"a", "b">>}

AppDisplays == {"", "d"}

AppQueries == {<<>>, <<"a">>, <<"a", "b">>}

AppLimits == {-1, 0, 1, 3}

NextApp ==
    \/ \E name \in ProviderTypes, factory \in Factories :
          RegisterProvider(name, factory) /\ UNCHANGED <<inflight, documents>>
    \/ \E providerType \in ProviderTypes, config \in AppOptionsSet :
          New(providerType, config) /\ UNCHANGED <<inflight, documents>>
    \/ \E id \in AppIds, text \in AppTexts, display \in AppDisplays :
          ImplIndex(id, text, display) /\ UNCHANGED <<inflight, documents>>
    \/ \E query \in AppQueries, limit \in AppLimits :
          ImplQuery(query, limit) /\ UNCHANGED <<inflight, documents>>
    \/ \E id \in AppIds : ImplDelete(id) /\ UNCHANGED <<inflight, documents>>
    \/ ImplDeleteAll /\ UNCHANGED <<inflight, documents>>

SpecApp == Init /\ [][NextApp]_vars

---------------------------------------------------------------------------
(* Claims about the caller-facing layer *)

\* C14: a caller-facing Index with an empty id, text or display returns
\* ErrEmptyID, ErrEmptyText or ErrEmptyDisplay, the id checked first, then the
\* text, then the display; a caller-facing Delete with an empty id returns
\* ErrEmptyID; in each case no provider call is made and nothing stored changes.
C14_EmptyFieldsRejected ==
    [][/\ (ac'.op = "Index" /\ (ac'.args[1] = <<>> \/ ac'.args[2] = <<>> \/ ac'.args[3] = "")) =>
             /\ ac'.err = (IF ac'.args[1] = <<>> THEN "ErrEmptyID"
                           ELSE IF ac'.args[2] = <<>> THEN "ErrEmptyText"
                           ELSE "ErrEmptyDisplay")
             /\ ac'.calls = <<>>
             /\ UNCHANGED <<store, result, lastOp, idxOpts, nIndex>>
       /\ (ac'.op = "Delete" /\ ac'.args[1] = <<>>) =>
             /\ ac'.err = "ErrEmptyID"
             /\ ac'.calls = <<>>
             /\ UNCHANGED <<store, result, lastOp, idxOpts, nIndex>>]_vars

\* an Index with empty text and empty display was rejected for its text
\* while an entry is stored
C14_Witness ==
    /\ ac.op = "Index" /\ ac.args[1] # <<>> /\ ac.args[2] = <<>> /\ ac.args[3] = ""
    /\ ac.err = "ErrEmptyText" /\ ac.calls = <<>>
    /\ \E key \in DOMAIN textH : DOMAIN textH[key] # {}

\* C15 as stated: a caller-facing Query returns ErrQueryTooShort when the
\* query is shorter than MinPrefixLength, and ErrLimitExceeded when the
\* requested limit exceeds MaxLimit, each before any provider call.
C15_QueryRejections ==
    [][ac'.op = "Query" =>
          LET query == ac'.args[1]
              limit == ac'.args[2]
              o == ac'.config
          IN /\ Len(query) < o.MinPrefixLength =>
                   /\ ac'.err = "ErrQueryTooShort" /\ ac'.calls = <<>>
                   /\ UNCHANGED <<store, result, lastOp, idxOpts, nIndex>>
             /\ limit > o.MaxLimit =>
                   /\ ac'.err = "ErrLimitExceeded" /\ ac'.calls = <<>>
                   /\ UNCHANGED <<store, result, lastOp, idxOpts, nIndex>>]_vars

\* C15 amended: a caller-facing Query returns ErrQueryTooShort when the query
\* is shorter than MinPrefixLength; when the query is long enough and the
\* requested limit exceeds MaxLimit it returns ErrLimitExceeded; each before
\* any provider call.
C15_QueryRejectionsInOrder ==
    [][ac'.op = "Query" =>
          LET query == ac'.args[1]
              limit == ac'.args[2]
              o == ac'.config
          IN /\ Len(query) < o.MinPrefixLength =>
                   /\ ac'.err = "ErrQueryTooShort" /\ ac'.calls = <<>>
                   /\ UNCHANGED <<store, result, lastOp, idxOpts, nIndex>>
             /\ (Len(query) >= o.MinPrefixLength /\ limit > o.MaxLimit) =>
                   /\ ac'.err = "ErrLimitExceeded" /\ ac'.calls = <<>>
                   /\ UNCHANGED <<store, result, lastOp, idxOpts, nIndex>>]_vars

\* a Query too short and over the limit at once was rejected as too short,
\* while an entry is stored
C15_Witness ==
    /\ ac.op = "Query" /\ Len(ac.args[1]) < ac.config.MinPrefixLength
    /\ ac.args[2] > ac.config.MaxLimit
    /\ ac.err = "ErrQueryTooShort" /\ ac.calls = <<>>
    /\ \E key \in DOMAIN textH : DOMAIN textH[key] # {}

\* C16: a Query that succeeded returned at most the requested number of
\* results: the provider's list is no longer than the MaxResults it was
\* called with, the caller's list no longer than the effective limit.
C16_AtMostMaxResults ==
    (ac.op = "Query" /\ ac.err = "nil") =>
        LET limit == effectiveLimit(ac.config, ac.args[2])
        IN /\ ac.calls = <<"Query">>
           /\ Len(result.res) <= ImplQueryOptions(ac.config, limit).MaxResults
           /\ Len(ac.res) <= limit

\* C20: New finds the factory of the latest RegisterProvider call for every
\* provider type that equals the registered name ignoring letter case.
C20_LookupIgnoresCase ==
    [][(ac'.op = "New" /\ ToLower(ac'.args[1]) = ToLower(ac.reg.name)) =>
          /\ ac'.err = "nil"
          /\ ac'.created
          /\ ac'.factory = ac.reg.factory]_vars

---------------------------------------------------------------------------
(* Ids that contain the separator *)

ColonIds == {<<"b">>, <<"b", ":", "c">>}

ColonTexts == {<<"a">>, <<"b">>, <<"a", "b">>}

ColonOptionsSet ==
    {[Score |-> 1, MatchStrategy |-> MatchPrefix, NGramSize |-> 0, CaseSensitive |-> FALSE],
     [Score |-> 1, MatchStrategy |-> MatchNOrMoreGram, NGramSize |-> 1,
      CaseSensitive |-> FALSE]}

ColonQueryOptionsSet ==
    {[MaxResults |-> 2, MatchStrategy |-> MatchPrefix, NGramSize |-> 0,
      CaseSensitive |-> FALSE],
     [MaxResults |-> 2, MatchStrategy |-> MatchNOrMoreGram, NGramSize |-> 1,
      CaseSensitive |-> FALSE]}

ColonQueries == {<<"a">>, <<"b">>}

\* each id is indexed once, so every composite key in the sorted set is one
\* that the Index of a stored id wrote
NextColon ==
    \/ \E key \in Keys, id \in ColonIds, text \in ColonTexts, display \in Displays,
          options \in ColonOptionsSet :
          /\ Absent(key, id)
          /\ Index(key, id, text, display, options)
          /\ UNCHANGED outer
    \/ \E key \in Keys, query \in ColonQueries, options \in ColonQueryOptionsSet :
          Query(key, query, options)
          /\ UNCHANGED outer
    \/ \E key \in Keys : DeleteAll(key)
          /\ UNCHANGED outer

SpecColon == Init /\ [][NextColon]_vars

\* the composite keys the Index of the stored id wrote
WrittenFor(key, id) ==
    IF id \in DOMAIN textH[key]
    THEN IndexMembers(textH[key][id], id, idxOpts[key][id])
    ELSE {}

\* member, written for id, decodes under the strategy: its id holds no
\* separator and it has the fields the strategy requires
Decodes(member, id, strategy) ==
    /\ Sep \notin Range(id)
    /\ Len(Split(member)) >= getMinPartsForStrategy(strategy)

\* C19: every Query succeeds, and every id it returns is contributed by a
\* composite key in the scanned range that was written for that id and
\* decodes; a key with too few fields, or one whose id contains the
\* separator, contributes no id.
C19_UndecodableKeySkipped ==
    \A key \in DOMAIN zset, query \in ColonQueries, options \in ColonQueryOptionsSet :
        \A res \in ProviderQuery(zset[key], displayH[key], query, options) :
            \A r \in ResultIDs(res) :
                \E member \in DOMAIN zset[key] \cap WrittenFor(key, r) :
                    /\ IsPrefixOf(NormalizeText(query, options.CaseSensitive), member)
                    /\ Decodes(member, r, options.MatchStrategy)

\* C21: New with a provider type that no registered name equals, even
\* ignoring letter case, returns ErrProviderNotFound and no instance, invokes
\* no factory, and leaves the instance the caller already holds as it was.
C21_UnknownProviderRejected ==
    [][(ac'.op = "New" /\ ToLower(ac'.args[1]) \notin DOMAIN providerFactories) =>
          /\ ac'.err = "ErrProviderNotFound"
          /\ ac'.res = <<>>
          /\ ac'.calls = <<>>
          /\ ac'.created = ac.created /\ ac'.factory = ac.factory
          /\ ac'.config = ac.config
          /\ UNCHANGED <<providerFactories, store, result, lastOp, idxOpts, nIndex>>]_vars

\* New was refused for a provider type never registered in any letter case
C21_Witness ==
    /\ ac.op = "New" /\ ac.err = "ErrProviderNotFound"
    /\ ToLower(ac.args[1]) \notin DOMAIN providerFactories
    /\ ac.created

---------------------------------------------------------------------------
(* Scores *)

\* index options with a score other than the caller-facing layer's 1.0
ScoreOptionsSet ==
    [Score : {1, 2}, MatchStrategy : {MatchPrefix, MatchSubstring}, NGramSize : {0},
     CaseSensitive : {FALSE}]

ScoreQueryOptionsSet ==
    [MaxResults : {2}, MatchStrategy : {MatchPrefix, MatchSubstring}, NGramSize : {0},
     CaseSensitive : {FALSE}]

ScoreTexts == {<<"a", "b">>, <<"b">>}

ScoreQueries == {<<"a">>, <<"b">>}

NextScore ==
    \/ \E key \in Keys, id \in Ids, text \in ScoreTexts, display \in Displays,
          options \in ScoreOptionsSet : Index(key, id, text, display, options)
          /\ UNCHANGED outer
    \/ \E key \in Keys, id \in Ids : Delete(key, id)
          /\ UNCHANGED outer
    \/ \E key \in Keys, query \in ScoreQueries, options \in ScoreQueryOptionsSet :
          Query(key, query, options)
          /\ UNCHANGED outer

SpecScore == Init /\ [][NextScore]_vars

\* C22: every result of a Query carries the score given in the IndexOptions
\* of the latest Index of its id.
C22_ScoreAsIndexed ==
    \A key \in DOMAIN zset, query \in ScoreQueries, options \in ScoreQueryOptionsSet :
        \A res \in ProviderQuery(zset[key], displayH[key], query, options) :
            \A i \in DOMAIN res :
                res[i].ID \in DOMAIN idxOpts[key] =>
                    res[i].Score = idxOpts[key][res[i].ID].Score

---------------------------------------------------------------------------
(* Backend commands that fail *)

\* the error of a backend command that failed (connection lost, timeout)
ioError == "io error"

\* a call has returned: the backend commands it issued in order, the
\* positions of those that failed, and the error it returned
Outcome(slot, op, issued, failed, err) ==
    [inflight EXCEPT ![slot] = [pc |-> "done", partners |-> 0, op |-> op,
                                issued |-> issued, failed |-> failed, err |-> err]]

\* Provider.Index whose pipeline may fail (fault "exec"); a failed pipeline
\* is taken as not applied
IndexFaulty(key, id, text, display, options, fault) ==
    /\ IF fault = "exec"
       THEN UNCHANGED <<store, result, lastOp, idxOpts, nIndex>>
       ELSE Index(key, id, text, display, options)
    /\ inflight' = Outcome("idx", "Index", <<"EXEC">>,
                           IF fault = "exec" THEN {1} ELSE {},
                           IF fault = "exec" THEN ioError ELSE "nil")

\* Provider.Delete whose read of the text, read of the case flag or pipeline
\* may fail
DeleteFaulty(key, id, fault) ==
    LET r == IF fault = "text" THEN [val |-> <<>>, err |-> ioError]
             ELSE HGet(textH[key], id)
        readsMeta == ~deleteReadFailed(r) /\ r.val # <<>>
        meta == IF fault = "meta" THEN [val |-> <<>>, err |-> ioError]
                ELSE HGet(metaH[key], id)
        issued == <<"HGET text">>
                      \o (IF readsMeta THEN <<"HGET meta">> ELSE <<>>)
                      \o (IF deleteReadFailed(r) THEN <<>> ELSE <<"EXEC">>)
        failed == IF fault = "text" THEN {1}
                  ELSE IF fault = "meta" THEN {2}
                  ELSE IF fault = "exec" THEN {Len(issued)}
                  ELSE {}
        err == IF deleteReadFailed(r) THEN "failed to get text for deletion"
               ELSE IF fault = "exec" THEN ioError
               ELSE "nil"
    IN /\ fault = "meta" => readsMeta
       /\ IF err # "nil"
          THEN /\ lastOp' = [op |-> "Delete", key |-> key, id |-> id, err |-> err,
                             fresh |-> FALSE, found |-> FALSE, n |-> 0]
               /\ UNCHANGED <<store, result, idxOpts, nIndex>>
          ELSE /\ zset' = [zset EXCEPT ![key] = ZRem(@, DeleteMembers(r.val, meta, id))]
               /\ textH' = [textH EXCEPT ![key] = HDel(@, id)]
               /\ displayH' = [displayH EXCEPT ![key] = HDel(@, id)]
               /\ metaH' = [metaH EXCEPT ![key] = HDel(@, id)]
               /\ idxOpts' = [idxOpts EXCEPT ![key] = HDel(@, id)]
               /\ lastOp' = [op |-> "Delete", key |-> key, id |-> id, err |-> "nil",
                             fresh |-> FALSE, found |-> r.err = "nil",
                             n |-> Cardinality(DeleteMembers(r.val, meta, id)
                                                   \cap DOMAIN zset[key])]
               /\ UNCHANGED <<result, nIndex>>
       /\ inflight' = Outcome("del", "Delete", issued, failed, err)

\* Provider.DeleteAll whose pipeline may fail
DeleteAllFaulty(key, fault) ==
    /\ IF fault = "exec"
       THEN UNCHANGED <<store, result, lastOp, idxOpts, nIndex>>
       ELSE DeleteAll(key)
    /\ inflight' = Outcome("del", "DeleteAll", <<"EXEC">>,
                           IF fault = "exec" THEN {1} ELSE {},
                           IF fault = "exec" THEN ioError ELSE "nil")

\* Provider.Query on its single-scan path, whose range scan or display fetch
\* may fail
QueryFaulty(key, query, options, fault) ==
    LET searchQuery == NormalizeText(query, options.CaseSensitive)
        plan == queryPlan(searchQuery, options)
        results == ZRangeByLex(zset[key], createLexicographicStartKey(searchQuery),
                               createLexicographicEndKey(searchQuery),
                               options.MaxResults * resultMultiplierForDuplicates)
        ids == extractUniqueIDsFromResults(results, options)
        fetches == plan = "scan" /\ fault # "scan" /\ ids # <<>>
        issued == (IF plan = "scan" THEN <<"ZRANGEBYLEX">> ELSE <<>>)
                      \o (IF fetches THEN <<"HMGET">> ELSE <<>>)
        err == IF fault = "scan" THEN "failed to query autocomplete"
               ELSE IF fault = "fetch" THEN "failed to fetch display texts"
               ELSE "nil"
    IN /\ plan # "windows"
       /\ fault = "scan" => plan = "scan"
       /\ fault = "fetch" => fetches
       /\ result' = [res |-> IF err # "nil" \/ plan = "empty" THEN <<>>
                             ELSE fetchProviderResults(displayH[key], ids),
                     err |-> err]
       /\ inflight' = Outcome("q", "Query", issued,
                              IF fault = "none" THEN {} ELSE {Len(issued)}, err)
       /\ UNCHANGED <<store, lastOp, idxOpts, nIndex>>

FaultTexts == {<<"A", "b">>}

FaultOptionsSet ==
    [Score : {1}, MatchStrategy : {MatchPrefix}, NGramSize : {0},
     CaseSensitive : BOOLEAN]

FaultQueryOptionsSet ==
    [MaxResults : {2}, MatchStrategy : {MatchPrefix, MatchNGram}, NGramSize : {1},
     CaseSensitive : {TRUE}]

FaultQueries == {<<>>, <<"A">>}

NextFaulty ==
    \/ \E key \in Keys, id \in Ids, text \in FaultTexts, display \in Displays,
          options \in FaultOptionsSet, fault \in {"none", "exec"} :
          IndexFaulty(key, id, text, display, options, fault)
          /\ UNCHANGED <<providerFactories, ac, documents>>
    \/ \E key \in Keys, id \in Ids, fault \in {"none", "text", "meta", "exec"} :
          DeleteFaulty(key, id, fault)
          /\ UNCHANGED <<providerFactories, ac, documents>>
    \/ \E key \in Keys, fault \in {"none", "exec"} :
          DeleteAllFaulty(key, fault)
          /\ UNCHANGED <<providerFactories, ac, documents>>
    \/ \E key \in Keys, query \in FaultQueries, options \in FaultQueryOptionsSet,
          fault \in {"none", "scan", "fetch"} :
          QueryFaulty(key, query, options, fault)
          /\ UNCHANGED <<providerFactories, ac, documents>>

SpecFaulty == Init /\ [][NextFaulty]_vars

\* C23: an operation that met a failed backend command returned a non-nil
\* error, and the failed command is the last one it issued: nothing was
\* issued again or after it.
C23_BackendErrorsSurfaced ==
    \A slot \in {"idx", "del", "q"} :
        (inflight[slot].pc = "done" /\ inflight[slot].failed # {}) =>
            /\ inflight[slot].err # "nil"
            /\ inflight[slot].failed = {Len(inflight[slot].issued)}

---------------------------------------------------------------------------
(* Re-indexing *)

\* an Index call, its arguments kept in the slot of the latest Index
IndexCall(key, id, text, display, options) ==
    /\ Index(key, id, text, display, options)
    /\ inflight' = [inflight EXCEPT
           !.idx = [pc |-> "done", partners |-> 0, key |-> key, id |-> id,
                    text |-> text, display |-> display, options |-> options]]

ReindexTexts == {<<"A", "b">>, <<"b">>}

ReindexDisplays == {"d", "e"}

ReindexOptionsSet ==
    [Score : {1}, MatchStrategy : {MatchPrefix}, NGramSize : {0}, CaseSensitive : BOOLEAN]

ReindexQueryOptionsSet ==
    [MaxResults : {2}, MatchStrategy : {MatchPrefix}, NGramSize : {0},
     CaseSensitive : BOOLEAN]

ReindexQueries == {<<"A">>, <<"a">>, <<"b">>}

NextReindex ==
    \/ \E key \in Keys, id \in Ids, text \in ReindexTexts, display \in ReindexDisplays,
          options \in ReindexOptionsSet : IndexCall(key, id, text, display, options)
          /\ UNCHANGED <<providerFactories, ac, documents>>
    \/ \E key \in Keys, id \in Ids : Delete(key, id)
          /\ UNCHANGED outer
    \/ \E key \in Keys, query \in ReindexQueries, options \in ReindexQueryOptionsSet :
          Query(key, query, options)
          /\ UNCHANGED outer

SpecReindex == Init /\ [][NextReindex]_vars

\* C24: an Index of an id that is already stored leaves its text, its
\* display and its metadata record (present iff the Index was case-sensitive)
\* as that Index gave them; and whenever a Query returns the id of the
\* latest Index, it returns it with the display of that Index.
C24_ReindexReplacesSideTables ==
    /\ [](inflight.idx.pc = "done" =>
             \A query \in ReindexQueries, options \in ReindexQueryOptionsSet :
                 \A res \in ProviderQuery(zset[inflight.idx.key],
                                           displayH[inflight.idx.key], query, options) :
                     \A i \in DOMAIN res :
                         res[i].ID = inflight.idx.id =>
                             res[i].Display = inflight.idx.display)
    /\ [][(nIndex' # nIndex /\ lastOp'.found) =>
             LET idx == inflight'.idx
             IN /\ HGet(textH'[idx.key], idx.id) = [val |-> idx.text, err |-> "nil"]
                /\ HGet(displayH'[idx.key], idx.id) = [val |-> idx.display, err |-> "nil"]
                /\ (idx.id \in DOMAIN metaH'[idx.key]) <=> idx.options.CaseSensitive]_vars

\* an id was re-indexed with another text, display "e" and no case flag, and
\* the result of a Query holds it
C24_Witness ==
    /\ lastOp.op = "Index" /\ lastOp.found
    /\ inflight.idx.display = "e" /\ ~inflight.idx.options.CaseSensitive
    /\ KeysOf(inflight.idx.key, inflight.idx.id)
           # IndexMembers(inflight.idx.text, inflight.idx.id, inflight.idx.options)
    /\ \E i \in DOMAIN result.res : result.res[i].ID = inflight.idx.id

\* C25: for the configuration of the instance, a caller-facing Query with a
\* limit <= 0 decides exactly as the Query of the same string with limit
\* DefaultLimit: the same error, or a provider call with the same options
\* (the same MaxResults).
C25_NonPositiveLimitIsDefault ==
    Serving =>
        \A query \in AppQueries, limit \in AppLimits :
            limit <= 0 =>
                implQueryPlan(ac.config, query, limit)
                    = implQueryPlan(ac.config, query, ac.config.DefaultLimit)

\* a Query with limit 0 was refused because DefaultLimit exceeds MaxLimit
C25_Witness ==
    /\ ac.op = "Query" /\ ac.args[2] <= 0
    /\ ac.config.DefaultLimit > ac.config.MaxLimit
    /\ ac.err = "ErrLimitExceeded"

---------------------------------------------------------------------------
(* The tokens Index writes *)

TokenTexts == {<<"A", "b">>, <<"a", "b", "a", "B">>}

TokenOptionsSet ==
    {o \in [Score : {1}, MatchStrategy : MatchPrefix..MatchSubstring,
            NGramSize : {-1, 0, 2}, CaseSensitive : BOOLEAN] :
        o.MatchStrategy \in {MatchPrefix, MatchSubstring} => o.NGramSize = 0}

NextTokens ==
    \/ \E key \in Keys, id \in Ids, text \in TokenTexts, display \in Displays,
          options \in TokenOptionsSet : IndexCall(key, id, text, display, options)
          /\ UNCHANGED <<providerFactories, ac, documents>>
    \/ \E key \in Keys : DeleteAll(key)
          /\ UNCHANGED outer

SpecTokens == Init /\ [][NextTokens]_vars

\* the contiguous substrings of t of length at least lo and at most hi, each
\* with its start offset
SubstringsAt(t, lo, hi) ==
    {[token |-> SubSeq(t, p[1] + 1, p[1] + p[2]), offset |-> p[1]] :
        p \in {q \in (0..(Len(t) - 1)) \X (lo..hi) : q[1] + q[2] <= Len(t)}}

\* the composite keys the statement of C26 asks for
TokenKeys(text, id, options) ==
    LET t == IF options.CaseSensitive THEN text ELSE ToLower(text)
        n == IF options.NGramSize <= 0 THEN 3 ELSE options.NGramSize
        tagged(set) == {x.token \o <<":">> \o id \o <<":">> \o Itoa(x.offset) : x \in set}
    IN CASE options.MatchStrategy = MatchPrefix ->
                {SubSeq(t, 1, k) \o <<":">> \o id : k \in 1..Len(t)}
         [] options.MatchStrategy = MatchNGram -> tagged(SubstringsAt(t, n, n))
         [] options.MatchStrategy = MatchNOrMoreGram -> tagged(SubstringsAt(t, n, Len(t)))
         [] options.MatchStrategy = MatchSubstring -> tagged(SubstringsAt(t, 1, Len(t)))

\* C26: an Index adds to the sorted set exactly the composite keys of the
\* tokens of its strategy over the normalized text: every prefix for Prefix,
\* every substring of length n with its offset for NGram (none when the text
\* is shorter), every substring of length >= n for NOrMoreGram, every
\* substring for Substring, with n = 3 when the size given is <= 0; each
\* with the score of the call, and no other key is added or removed.
C26_IndexWritesStrategyTokens ==
    [][nIndex' # nIndex =>
          LET idx == inflight'.idx
              keys == TokenKeys(idx.text, idx.id, idx.options)
          IN /\ DOMAIN zset'[idx.key] = DOMAIN zset[idx.key] \cup keys
             /\ \A member \in keys : zset'[idx.key][member] = idx.options.Score
             /\ \A member \in DOMAIN zset[idx.key] \ keys :
                    zset'[idx.key][member] = zset[idx.key][member]]_vars

\* an NGram Index with size 0 wrote the two trigrams of a four-byte text
C26_Witness ==
    /\ lastOp.op = "Index" /\ lastOp.n = 2
    /\ inflight.idx.options.MatchStrategy = MatchNGram
    /\ inflight.idx.options.NGramSize = 0
    /\ Len(inflight.idx.text) = 4
    /\ <<"b", "a", "b", ":">> \o inflight.idx.id \o <<":", "1">>
           \in DOMAIN zset[inflight.idx.key]

---------------------------------------------------------------------------
(* The range scan *)

ScanIds == {<<"0">>, <<"b">>}

ScanTexts == {<<"a", "b">>, <<"b", "a">>}

ScanOptionsSet ==
    [Score : {1}, MatchStrategy : {MatchPrefix, MatchSubstring}, NGramSize : {0},
     CaseSensitive : {FALSE}]

\* query strings as Provider.Query accepts them: any bytes, the separator included
ScanQueries == {<<"a">>, <<"b">>, <<"a", "b">>, <<"a", ":">>, <<"b", ":", "0">>}

NextScan ==
    \/ \E key \in Keys, id \in ScanIds, text \in ScanTexts, display \in Displays,
          options \in ScanOptionsSet : IndexCall(key, id, text, display, options)
          /\ UNCHANGED <<providerFactories, ac, documents>>
    \/ \E key \in Keys, id \in ScanIds : Delete(key, id)
          /\ UNCHANGED outer
    \/ \E key \in Keys : DeleteAll(key)
          /\ UNCHANGED outer

SpecScan == Init /\ [][NextScan]_vars

\* the tokens of an Index call, each with the composite key written for it
TokenMembers(text, id, options) ==
    LET t == NormalizeText(text, options.CaseSensitive)
    IN IF options.MatchStrategy = MatchPrefix
       THEN {[token |-> Slice(t, 0, i), member |-> createPrefixMember(Slice(t, 0, i), id)] :
                i \in 1..Len(t)}
       ELSE {[token |-> x.token,
              member |-> createPositionalMember(x.token, id, x.offset)] :
                x \in SubstringsAt(t, 1, Len(t))}

\* the keys a range scan for q over sorted set z returns when no LIMIT cuts it
ScanRange(z, q) ==
    Range(ZRangeByLex(z, createLexicographicStartKey(q), createLexicographicEndKey(q), 0))

\* C27: for every query string q, a composite key of the latest Index that
\* is in the sorted set is returned by the range scan for q if and only if
\* its token equals q or extends q.
C27_ScanReturnsTokenExtensions ==
    inflight.idx.pc = "done" =>
        \A q \in ScanQueries :
            \A x \in TokenMembers(inflight.idx.text, inflight.idx.id, inflight.idx.options) :
                x.member \in DOMAIN zset[inflight.idx.key] =>
                    (x.member \in ScanRange(zset[inflight.idx.key], q)
                        <=> IsPrefixOf(q, x.token))

---------------------------------------------------------------------------
(* NGram queries *)

NGramIds == {<<"1">>, <<"2">>}

NGramTexts == {<<"a", "b", "a">>, <<"a", "b">>}

NGramOptionsSet ==
    {[Score |-> 1, MatchStrategy |-> MatchNGram, NGramSize |-> 2, CaseSensitive |-> FALSE]}

NGramQueryOptionsSet ==
    {[MaxResults |-> 2, MatchStrategy |-> MatchNGram, NGramSize |-> 2,
      CaseSensitive |-> FALSE]}

NGramQueries ==
    {<<>>, <<"b">>, <<"A", "b">>, <<"b", "a", "b">>, <<"a", "b", "b", "a">>}

\* Index and Delete calls between the backend commands of a Query
NextNGram ==
    \/ \E key \in Keys, id \in NGramIds, text \in NGramTexts, display \in Displays,
          options \in NGramOptionsSet : Index(key, id, text, display, options)
          /\ UNCHANGED outer
    \/ \E key \in Keys, id \in NGramIds : Delete(key, id)
          /\ UNCHANGED outer
    \/ \E key \in Keys, query \in NGramQueries, options \in NGramQueryOptionsSet :
          QueryBegin(key, query, options)
          /\ UNCHANGED <<providerFactories, ac, documents>>
    \/ QueryScan /\ UNCHANGED <<providerFactories, ac, documents>>
    \/ QueryWindowScan /\ UNCHANGED <<providerFactories, ac, documents>>
    \/ QueryFetch /\ UNCHANGED <<providerFactories, ac, documents>>

SpecNGram == Init /\ [][NextNGram]_vars

\* some n-gram of the normalized text begins with the normalized query
NGramBeginsWith(text, query, options) ==
    LET t == NormalizeText(text, options.CaseSensitive)
        q == NormalizeText(query, options.CaseSensitive)
        n == getNGramSizeOrDefault(options.NGramSize)
    IN \E x \in SubstringsAt(t, n, n) : IsPrefixOf(q, x.token)

\* the entries of the namespace whose text has an n-gram beginning with query
NGramMatches(key, query, options) ==
    {id \in DOMAIN textH[key] : NGramBeginsWith(textH[key][id], query, options)}

\* every entry of the namespace was indexed with the options' strategy, size
\* and case flag
IndexedWith(key, options) ==
    \A id \in DOMAIN textH[key] :
        /\ idxOpts[key][id].MatchStrategy = options.MatchStrategy
        /\ idxOpts[key][id].NGramSize = options.NGramSize
        /\ idxOpts[key][id].CaseSensitive = options.CaseSensitive

\* C28: in a namespace indexed with NGram size n, a Query for a non-empty
\* string of at most n bytes returns only entries one of whose n-grams begins
\* with the query, all of them when they are no more than the limit and as
\* many as the limit otherwise, and takes exactly one range scan; an empty
\* NGram query returns the empty result without a scan.
C28_ShortNGramQuery ==
    /\ \A key \in DOMAIN zset, options \in NGramQueryOptionsSet :
           IndexedWith(key, options) =>
               \A query \in {x \in NGramQueries :
                                Len(x) >= 1
                                /\ Len(x) <= getNGramSizeOrDefault(options.NGramSize)} :
                   \A res \in ProviderQuery(zset[key], displayH[key], query, options) :
                       LET matches == NGramMatches(key, query, options)
                       IN /\ ResultIDs(res) \subseteq matches
                          /\ Len(res) = MinInt(Cardinality(matches), options.MaxResults)
    /\ LET q == inflight.q
       IN (q.pc # "idle" /\ q.options.MatchStrategy = MatchNGram) =>
              /\ Len(q.searchQuery) = 0 =>
                     q.pc = "done" /\ q.scans = 0 /\ result.res = <<>>
              /\ (Len(q.searchQuery) >= 1 /\ Len(q.searchQuery) <= q.n) =>
                     /\ q.pc \in {"scan", "fetch", "done"}
                     /\ q.scans = (IF q.pc = "scan" THEN 0 ELSE 1)

\* the windows of a sliding-window query
WindowCount(q) == Len(q.searchQuery) - q.n + 1

\* C29: a sliding-window NGram query scans its windows in order of
\* increasing offset, one scan each; when the decoded id set of the window
\* it scans is empty it returns the empty result at once, with no scan of a
\* later window and no display fetch.
C29_WindowsInOrderShortCircuit ==
    /\ [](inflight.q.pc = "windows" =>
             /\ inflight.q.scans = inflight.q.i
             /\ inflight.q.i < WindowCount(inflight.q)
             /\ \A w \in DOMAIN inflight.q.ngramSets : inflight.q.ngramSets[w] # {})
    /\ [][inflight.q.pc = "windows" /\ inflight'.q # inflight.q =>
             LET q == inflight.q
                 ngram == SubSeq(q.searchQuery, q.i + 1, q.i + q.n)
                 scanned == ZRangeByLex(zset[q.key], createLexicographicStartKey(ngram),
                                        createLexicographicEndKey(ngram),
                                        q.options.MaxResults * resultMultiplierForIntersection)
             IN /\ inflight'.q.scans = q.scans + 1
                /\ extractIDsFromResults(scanned, minMemberPartsForPositionalID) = {} =>
                       /\ inflight'.q.pc = "done"
                       /\ inflight'.q.fetches = 0
                       /\ result' = [res |-> <<>>, err |-> "nil"]
                /\ inflight'.q.pc = "windows" => inflight'.q.i = q.i + 1]_vars

\* a query of three windows returned after its second window came back empty
C29_Witness ==
    /\ inflight.q.pc = "done" /\ WindowCount(inflight.q) = 3
    /\ inflight.q.scans = 2 /\ inflight.q.fetches = 0
    /\ result.res = <<>>
    /\ ScanRange(zset[inflight.q.key], SubSeq(inflight.q.searchQuery, 1, 2)) # {}
    /\ ScanRange(zset[inflight.q.key], SubSeq(inflight.q.searchQuery, 3, 4)) # {}

\* every length-n window of the normalized query is an n-gram of the
\* normalized text
EveryWindowOccurs(text, query, options) ==
    LET t == NormalizeText(text, options.CaseSensitive)
        q == NormalizeText(query, options.CaseSensitive)
        n == getNGramSizeOrDefault(options.NGramSize)
    IN \A w \in SubstringsAt(q, n, n) : \E x \in SubstringsAt(t, n, n) : x.token = w.token

\* q occurs in t as a contiguous substring
OccursIn(q, t) == \E i \in 0..(Len(t) - Len(q)) : SubSeq(t, i + 1, i + Len(q)) = q

\* C30: a sliding-window NGram query returns every entry indexed with NGram
\* size n in whose text each length-n window of the query occurs somewhere,
\* whether or not the query itself occurs in the text (as long as the
\* namespace holds no more entries than the limit).
C30_WindowsMatchIndependently ==
    \A key \in DOMAIN zset, options \in NGramQueryOptionsSet :
        \A id \in DOMAIN textH[key], query \in NGramQueries :
            (/\ idxOpts[key][id].MatchStrategy = MatchNGram
             /\ idxOpts[key][id].NGramSize = options.NGramSize
             /\ idxOpts[key][id].CaseSensitive = options.CaseSensitive
             /\ Len(query) > getNGramSizeOrDefault(options.NGramSize)
             /\ EveryWindowOccurs(textH[key][id], query, options)
             /\ Cardinality(DOMAIN textH[key]) <= options.MaxResults) =>
                \A res \in ProviderQuery(zset[key], displayH[key], query, options) :
                    id \in ResultIDs(res)

\* a Query longer than n has returned an entry in whose text the query does
\* not occur, while each of its windows does
C30_Witness ==
    LET q == inflight.q
    IN /\ q.pc = "done" /\ q.options.MatchStrategy = MatchNGram
       /\ Len(q.searchQuery) > q.n
       /\ \E id \in ResultIDs(result.res) \cap DOMAIN textH[q.key] :
              /\ ~OccursIn(q.searchQuery,
                           NormalizeText(textH[q.key][id], q.options.CaseSensitive))
              /\ EveryWindowOccurs(textH[q.key][id], q.searchQuery, q.options)
              /\ KeysOf(q.key, id)
                     = IndexMembers(textH[q.key][id], id, idxOpts[q.key][id])

---------------------------------------------------------------------------
(* Range-scan hits: entries with several composite keys in one range *)

HitIds == {<<"1">>, <<"2">>}

HitTexts == {<<"a", "a", "a">>, <<"a", "b">>}

HitOptionsSet ==
    [Score : {1}, MatchStrategy : {MatchNGram}, NGramSize : {2}, CaseSensitive : {FALSE}]

HitQueryOptionsSet ==
    [MaxResults : {1, 2}, MatchStrategy : {MatchNGram}, NGramSize : {2},
     CaseSensitive : {FALSE}]

HitQueries == {<<"a">>, <<"a", "a">>, <<"a", "b">>, <<"a", "a", "a">>}

NextHits ==
    \/ \E key \in Keys, id \in HitIds, text \in HitTexts, display \in Displays,
          options \in HitOptionsSet : Index(key, id, text, display, options)
          /\ UNCHANGED outer
    \/ \E key \in Keys, id \in HitIds : Delete(key, id)
          /\ UNCHANGED outer
    \/ \E key \in Keys, query \in HitQueries, options \in HitQueryOptionsSet :
          QueryBegin(key, query, options)
          /\ UNCHANGED <<providerFactories, ac, documents>>
    \/ QueryScan /\ UNCHANGED <<providerFactories, ac, documents>>
    \/ QueryWindowScan /\ UNCHANGED <<providerFactories, ac, documents>>
    \/ QueryFetch /\ UNCHANGED <<providerFactories, ac, documents>>

SpecHits == Init /\ [][NextHits]_vars

NoRepeatedID(res) == \A i, j \in DOMAIN res : res[i].ID = res[j].ID => i = j

\* the composite keys in the range of token q that decode to id
HitsOf(z, q, id, minParts) ==
    {m \in DOMAIN z : /\ LexAtLeast(createLexicographicStartKey(q), m)
                      /\ LexAtMost(createLexicographicEndKey(q), m)
                      /\ extractIDFromMember(m, minParts) = id}

\* C31: no result list of a Query holds an id twice, on the single-scan path
\* and on the sliding-window path, whatever number of composite keys an entry
\* has in a scanned range; this holds for the list a Query has returned and
\* for every list a Query of the current tables may return.
C31_NoDuplicateIds ==
    /\ NoRepeatedID(result.res)
    /\ inflight.q.pc = "fetch" =>
           \A i, j \in DOMAIN inflight.q.ids :
               inflight.q.ids[i] = inflight.q.ids[j] => i = j
    /\ \A key \in DOMAIN zset, query \in HitQueries, options \in HitQueryOptionsSet :
           \A res \in ProviderQuery(zset[key], displayH[key], query, options) :
               NoRepeatedID(res)

\* a Query has returned an entry that has two or more composite keys in the
\* range it scanned (the range of its first window on the sliding-window path)
C31_Witness ==
    LET q == inflight.q
        token == IF q.scans > 1 THEN Slice(q.searchQuery, 0, q.n) ELSE q.searchQuery
    IN /\ q.pc = "done" /\ q.fetches = 1
       /\ \E i \in DOMAIN result.res :
              Cardinality(HitsOf(zset[q.key], token, result.res[i].ID,
                                 getMinPartsForStrategy(q.options.MatchStrategy))) >= 2

\* the hits of the single range scan for searchQuery, in the order returned
ScanHits(z, searchQuery, options) ==
    ZRangeByLex(z, createLexicographicStartKey(searchQuery),
                createLexicographicEndKey(searchQuery),
                options.MaxResults * resultMultiplierForDuplicates)

\* the ids decoded from the first p hits
DistinctUpTo(hits, p, minParts) ==
    {extractIDFromMember(hits[i], minParts) : i \in 1..p} \ {<<>>}

\* the position of the first hit that decodes to id
FirstAt(hits, id, minParts) ==
    CHOOSE p \in DOMAIN hits :
        /\ extractIDFromMember(hits[p], minParts) = id
        /\ \A i \in 1..(p - 1) : extractIDFromMember(hits[i], minParts) # id

\* the hit at which collection stops: the first that brings the number of
\* distinct ids to max, the last hit if none does
StopAt(hits, max, minParts) ==
    IF \E p \in DOMAIN hits : Cardinality(DistinctUpTo(hits, p, minParts)) >= max
    THEN CHOOSE p \in DOMAIN hits :
            /\ Cardinality(DistinctUpTo(hits, p, minParts)) >= max
            /\ \A i \in 1..(p - 1) : Cardinality(DistinctUpTo(hits, i, minParts)) < max
    ELSE Len(hits)

\* ids lists, each once and in the order of first occurrence, the ids among
\* wanted that the hits up to the stop decode to
InFirstSeenOrder(ids, hits, wanted, options) ==
    LET minParts == getMinPartsForStrategy(options.MatchStrategy)
        stop == StopAt(hits, options.MaxResults, minParts)
    IN /\ Range(ids) = DistinctUpTo(hits, stop, minParts) \cap wanted
       /\ \A i, j \in DOMAIN ids :
              i < j => FirstAt(hits, ids[i], minParts) < FirstAt(hits, ids[j], minParts)

\* C32: on the single-scan path the ids are collected in the order in which
\* each first occurs in the range-scan hits, collection stops at the first hit
\* that brings the number of distinct ids to MaxResults, and the result lists
\* the collected ids that have a display text, in that order.
C32_FirstSeenOrderAndCap ==
    /\ [](\A key \in DOMAIN zset, query \in HitQueries, options \in HitQueryOptionsSet :
            LET searchQuery == NormalizeText(query, options.CaseSensitive)
                hits == ScanHits(zset[key], searchQuery, options)
                res == querySingleScan(zset[key], displayH[key], searchQuery, options)
            IN queryPlan(searchQuery, options) = "scan" =>
                  InFirstSeenOrder([i \in DOMAIN res |-> res[i].ID], hits,
                                   DOMAIN displayH[key], options))
    /\ [][(inflight.q.pc = "scan" /\ inflight'.q.pc # "scan") =>
            LET q == inflight.q
                hits == ScanHits(zset[q.key], q.searchQuery, q.options)
            IN /\ inflight'.q.scans = 1
               /\ InFirstSeenOrder(inflight'.q.ids, hits, HitIds, q.options)]_vars

\* a single-scan Query has returned the id of the first hit although a smaller
\* id occurs in later hits, and the hits hold more distinct ids than MaxResults
C32_Witness ==
    LET q == inflight.q
        hits == ScanHits(zset[q.key], q.searchQuery, q.options)
        minParts == getMinPartsForStrategy(q.options.MatchStrategy)
    IN /\ q.pc = "done" /\ q.scans = 1 /\ q.fetches = 1
       /\ Len(result.res) = q.options.MaxResults
       /\ Cardinality(DistinctUpTo(hits, Len(hits), minParts)) > q.options.MaxResults
       /\ result.res[1].ID = <<"2">>
       /\ extractIDFromMember(hits[1], minParts) = <<"2">>
       /\ <<"1">> \in DistinctUpTo(hits, Len(hits), minParts)

---------------------------------------------------------------------------
(* Storage: the number of composite keys of one Index call *)

\* the figures the example program prints for its storage comparison
exampleTextLength == 20
prefixEntriesCount == 20
nGramEntriesCount == 18
substringEntriesCount == 210

CountLengths == {0, 2, 3, 4, exampleTextLength}

CountTexts == {[i \in 1..L |-> IF i % 2 = 1 THEN "a" ELSE "b"] : L \in CountLengths}

CountOptionsSet ==
    {o \in [Score : {1}, MatchStrategy : MatchPrefix..MatchSubstring,
            NGramSize : {0, 2}, CaseSensitive : {FALSE}] :
        o.MatchStrategy \in {MatchPrefix, MatchSubstring} => o.NGramSize = 0}

NextCount ==
    \/ \E key \in Keys, text \in CountTexts, display \in Displays,
          options \in CountOptionsSet : IndexCall(key, <<"1">>, text, display, options)
          /\ UNCHANGED <<providerFactories, ac, documents>>
    \/ \E key \in Keys : DeleteAll(key)
          /\ UNCHANGED outer

SpecCount == Init /\ [][NextCount]_vars

\* the number of keys the statement of C33 gives for a text of length L
KeyCount(strategy, L, n) ==
    CASE strategy = MatchPrefix -> L
      [] strategy = MatchNGram -> IF L - n + 1 > 0 THEN L - n + 1 ELSE 0
      [] strategy = MatchNOrMoreGram ->
             IF L >= n THEN ((L - n + 1) * (L - n + 2)) \div 2 ELSE 0
      [] strategy = MatchSubstring -> (L * (L + 1)) \div 2

\* C33: one Index call for a text of length L writes L composite keys for
\* Prefix, max(0, L-n+1) for NGram, (L-n+1)(L-n+2)/2 for NOrMoreGram when
\* L >= n (0 otherwise) and L(L+1)/2 for Substring; an empty namespace holds
\* that many keys afterwards; for L = 20 and n = 3 the numbers are 20, 18, 171
\* and 210.
C33_KeysPerIndex ==
    /\ [](/\ KeyCount(MatchPrefix, exampleTextLength, defaultNGramSize)
                = prefixEntriesCount
          /\ KeyCount(MatchNGram, exampleTextLength, defaultNGramSize)
                = nGramEntriesCount
          /\ KeyCount(MatchNOrMoreGram, exampleTextLength, defaultNGramSize) = 171
          /\ KeyCount(MatchSubstring, exampleTextLength, defaultNGramSize)
                = substringEntriesCount)
    /\ [][nIndex' # nIndex =>
            LET idx == inflight'.idx
                count == KeyCount(idx.options.MatchStrategy, Len(idx.text),
                                  getNGramSizeOrDefault(idx.options.NGramSize))
            IN /\ lastOp'.n = count
               /\ Cardinality(IndexMembers(idx.text, idx.id, idx.options)) = count
               /\ DOMAIN zset[idx.key] = {} =>
                      Cardinality(DOMAIN zset'[idx.key]) = count]_vars

\* an NOrMoreGram Index with the default size has written the 171 keys of a
\* text of 20 bytes into an empty namespace
C33_Witness ==
    /\ lastOp.op = "Index" /\ lastOp.n = 171
    /\ inflight.idx.options.MatchStrategy = MatchNOrMoreGram
    /\ inflight.idx.options.NGramSize = 0
    /\ Len(inflight.idx.text) = exampleTextLength
    /\ Cardinality(DOMAIN zset[inflight.idx.key]) = 171

---------------------------------------------------------------------------
(* Delete and the case flag of the entry *)

\* the keys C34 expects a Delete to remove for a stored text and case flag:
\* the prefix keys and the positional keys of the text in the case it was
\* indexed in
CaseKeys(text, id, caseSensitive) ==
    LET as(strategy) == [Score |-> 1, MatchStrategy |-> strategy, NGramSize |-> 0,
                         CaseSensitive |-> caseSensitive]
    IN TokenKeys(text, id, as(MatchPrefix)) \cup TokenKeys(text, id, as(MatchSubstring))

\* C34: a Delete of a stored entry removes the keys of its text in the case
\* recorded when it was indexed (original case when indexed case-sensitively,
\* lower case when indexed case-insensitively or when no metadata record
\* exists), the recorded flag being that of the latest Index; afterwards no
\* key of that Index is left and no query for the text returns the id.
C34_DeleteUsesRecordedCase ==
    [][(lastOp'.op = "Delete" /\ lastOp'.id \in DOMAIN textH[lastOp'.key]) =>
          LET key == lastOp'.key
              id == lastOp'.id
              text == textH[key][id]
              recorded == id \in DOMAIN metaH[key] /\ metaH[key][id] = "1"
          IN /\ recorded = idxOpts[key][id].CaseSensitive
             /\ DOMAIN zset'[key] = DOMAIN zset[key] \ CaseKeys(text, id, recorded)
             /\ TokenKeys(text, id, idxOpts[key][id]) \cap DOMAIN zset'[key] = {}
             /\ \A options \in ReindexQueryOptionsSet :
                    \A res \in ProviderQuery(zset'[key], displayH'[key], text, options) :
                        id \notin ResultIDs(res)]_vars

\* a Delete has removed the two original-case keys of an entry indexed
\* case-sensitively with a text that holds an upper-case letter
C34_Witness ==
    /\ lastOp.op = "Delete" /\ lastOp.fresh /\ lastOp.found /\ lastOp.n = 2
    /\ inflight.idx.pc = "done" /\ inflight.idx.id = lastOp.id
    /\ inflight.idx.options.CaseSensitive
    /\ inflight.idx.text = <<"A", "b">>
    /\ KeysOf(lastOp.key, lastOp.id) = {}

---------------------------------------------------------------------------
(* Index called twice in a row *)

\* the latest Index call made once more with the same arguments
IndexAgain ==
    LET c == inflight.idx
    IN /\ lastOp.op = "Index"
       /\ c.pc \in {"done", "again"}
       /\ Index(c.key, c.id, c.text, c.display, c.options)
       /\ inflight' = [inflight EXCEPT !.idx = [c EXCEPT !.pc = "again"]]

NextTwice ==
    \/ \E key \in Keys, id \in Ids, text \in TokenTexts, display \in Displays,
          options \in TokenOptionsSet : IndexCall(key, id, text, display, options)
          /\ UNCHANGED <<providerFactories, ac, documents>>
    \/ IndexAgain /\ UNCHANGED <<providerFactories, ac, documents>>
    \/ \E key \in Keys, id \in Ids : Delete(key, id)
          /\ UNCHANGED outer

SpecTwice == Init /\ [][NextTwice]_vars

\* the step is an Index call with the arguments of the Index call before it,
\* no other mutator having run in between
RepeatsLatestIndex ==
    /\ nIndex' # nIndex
    /\ lastOp.op = "Index"
    /\ inflight.idx.pc \in {"done", "again"}
    /\ \A f \in {"key", "id", "text", "display", "options"} :
           inflight'.idx[f] = inflight.idx[f]

\* C35: an Index call that repeats the Index call before it, with the same
\* namespace, id, text, display and options, leaves the token index (members
\* and scores) and the text, display and metadata records as the first call
\* left them.
C35_IndexIdempotent ==
    [][RepeatsLatestIndex => UNCHANGED <<zset, textH, displayH, metaH>>]_vars

\* an Index call has been repeated for an entry that has composite keys
C35_Witness ==
    LET c == inflight.idx
    IN /\ c.pc = "again" /\ lastOp.op = "Index" /\ lastOp.n >= 2
       /\ TokenKeys(c.text, c.id, c.options) \subseteq DOMAIN zset[c.key]
       /\ textH[c.key][c.id] = c.text /\ displayH[c.key][c.id] = c.display

---------------------------------------------------------------------------
(* Delete whose read of the stored text fails *)

\* C36: a Delete whose read of the stored text failed with a backend error
\* returned an error after that one command, with no read of the case flag
\* and no pipeline executed, and its step left the token index and the text,
\* display and metadata records as they were.
C36_FailedTextReadRemovesNothing ==
    /\ []((/\ inflight.del.pc = "done" /\ inflight.del.op = "Delete"
           /\ 1 \in inflight.del.failed) =>
              /\ inflight.del.err = "failed to get text for deletion"
              /\ inflight.del.issued = <<"HGET text">>)
    /\ [][(lastOp'.op = "Delete" /\ lastOp'.err = "failed to get text for deletion") =>
            UNCHANGED <<zset, textH, displayH, metaH>>]_vars

\* a Delete of a stored entry that has composite keys has failed on its read
\* of the text
C36_Witness ==
    /\ inflight.del.pc = "done" /\ inflight.del.op = "Delete"
    /\ inflight.del.failed = {1}
    /\ lastOp.op = "Delete" /\ lastOp.err = "failed to get text for deletion"
    /\ lastOp.id \in DOMAIN textH[lastOp.key]
    /\ lastOp.id \in DOMAIN displayH[lastOp.key]
    /\ KeysOf(lastOp.key, lastOp.id) # {}

---------------------------------------------------------------------------
(* The Elasticsearch provider: one document per Index call *)

generateDocumentID(key, id) == key \o <<Sep>> \o id

\* Provider.Index of the Elasticsearch provider: the document is stored under
\* its document id, replacing what that id held
EsIndex(key, id, text, display, options) ==
    /\ documents' = HSet(documents, generateDocumentID(key, id),
                         [ID |-> id, Key |-> key, Text |-> text, Display |-> display,
                          Score |-> options.Score,
                          CaseSensitive |-> options.CaseSensitive])
    /\ lastOp' = [op |-> "EsIndex", key |-> key, id |-> id, err |-> "nil",
                  fresh |-> generateDocumentID(key, id) \notin DOMAIN documents,
                  found |-> generateDocumentID(key, id) \in DOMAIN documents, n |-> 1]
    /\ UNCHANGED <<store, result, idxOpts, nIndex, providerFactories, ac, inflight>>

\* Provider.Delete of the Elasticsearch provider; a missing document (404) is
\* no error
EsDelete(key, id) ==
    /\ documents' = HDel(documents, generateDocumentID(key, id))
    /\ lastOp' = [op |-> "EsDelete", key |-> key, id |-> id, err |-> "nil",
                  fresh |-> FALSE,
                  found |-> generateDocumentID(key, id) \in DOMAIN documents,
                  n |-> IF generateDocumentID(key, id) \in DOMAIN documents
                        THEN 1 ELSE 0]
    /\ UNCHANGED <<store, result, idxOpts, nIndex, providerFactories, ac, inflight>>

\* Provider.DeleteAll of the Elasticsearch provider: delete by query on the
\* key field
EsDeleteAll(key) ==
    /\ documents' = Restrict(documents,
                             {d \in DOMAIN documents : documents[d].Key # key})
    /\ lastOp' = [op |-> "EsDeleteAll", key |-> key, id |-> NoId, err |-> "nil",
                  fresh |-> FALSE, found |-> FALSE,
                  n |-> Cardinality({d \in DOMAIN documents : documents[d].Key = key})]
    /\ UNCHANGED <<store, result, idxOpts, nIndex, providerFactories, ac, inflight>>

EsKeys == {<<"a">>, <<"a", ":", "b">>}

EsIds == {<<"c">>, <<"b", ":", "c">>}

EsTexts == {<<"t">>, <<"u">>}

EsOptionsSet ==
    [Score : {1}, MatchStrategy : {MatchPrefix}, NGramSize : {0}, CaseSensitive : {FALSE}]

NextEs ==
    \/ \E key \in EsKeys, id \in EsIds, text \in EsTexts, display \in Displays,
          options \in EsOptionsSet : EsIndex(key, id, text, display, options)
    \/ \E key \in EsKeys, id \in EsIds : EsDelete(key, id)
    \/ \E key \in EsKeys : EsDeleteAll(key)

SpecEs == Init /\ [][NextEs]_vars

\* C37: an Index or a Delete of the Elasticsearch provider for (key, id)
\* leaves the stored document of every other (key, id) pair in place and
\* unchanged, the separator in keys and ids included.
C37_DocumentsDisjoint ==
    [][lastOp'.op \in {"EsIndex", "EsDelete"} =>
          \A doc \in DOMAIN documents :
              <<documents[doc].Key, documents[doc].ID>> # <<lastOp'.key, lastOp'.id>> =>
                  /\ doc \in DOMAIN documents'
                  /\ documents'[doc] = documents[doc]]_vars

===========================================================================
